---- MODULE Spec2Model ----
(***************************************************************************)
(* Scanning-SQUID microscope: the scanner's motion API (scanner.py) and    *)
(* the raster-scan driver SusceptometerMicroscope.scan_plane               *)
(* (microscope.py), as a state machine over the DAQ tasks, the analog      *)
(* outputs and an explicit call stack.                                     *)
(*                                                                         *)
(* Voltages are integers (volts).  Every function of the source is one     *)
(* action; the frame on top of the stack holds its locals and its position *)
(* `pc`, named after the source line the next step starts at.              *)
(***************************************************************************)
EXTENDS Integers, Sequences, FiniteSets, TLC

VARIABLES
    temp,             \* Scanner.temp: "RT" or "LT"
    ao_out,           \* voltages on the three analog outputs <<x, y, z>>
    plane_is_current, \* scanner.metadata['position']['plane_is_current']
    amplitude,        \* <<CAP_lockin.amplitude, SUSC_lockin.amplitude>>
    goto_ao_task,     \* the task 'goto_ao_task' exists (created, not closed)
    get_pos_ai_task,  \* the task 'get_pos_ai_task' exists
    ao_task,          \* Scanner.ao_task, the task 'scan_line_ao_task'
    ai_task,          \* the task 'scan_plane_ai_task' of scan_plane
    counter,          \* loop_counter.count
    stack,            \* call stack: a sequence of frames, the last is running
    exc,              \* the exception being propagated, or "none"
    ret,              \* value returned by the call that returned last
    result,           \* how the last top-level call ended
    interrupted,      \* a KeyboardInterrupt was delivered to the running call
    ao_writes,        \* history: analog-output writes of the running top-level call
    events,           \* history: hardware/driver events of the running scan_plane
    td                \* the touchdown verdict: Scanner.td_has_occurred, .td_height and
                      \* tdc_plot.td_height, .pre_td_slope, .post_td_slope

vars == <<temp, ao_out, plane_is_current, amplitude, goto_ao_task, get_pos_ai_task,
          ao_task, ai_task, counter, stack, exc, ret, result, interrupted,
          ao_writes, events, td>>

(***************************************************************************)
(* The frames of the call stack: the function, the place it is at (named   *)
(* after the source line) and its arguments and locals.                    *)
(***************************************************************************)
NoPos == <<>>

\* Scanner.ao_task: its state and the samples queued on it
NoTask == [st |-> "none", out |-> <<>>]

get_pos_frame == [fn |-> "get_pos", pc |-> "l89"]

goto_frame(new_pos, retract_first, speed, quiet) ==
    [fn |-> "goto", pc |-> "l113", new_pos |-> new_pos, retract_first |-> retract_first,
     speed |-> speed, quiet |-> quiet, old_pos |-> NoPos,
     \* history: the outputs and the write count when the call was made
     ao0 |-> ao_out, w0 |-> ao_writes]

retract_frame(speed) == [fn |-> "retract", pc |-> "l158", speed |-> speed]

goto_axis_frame(axis, value) ==
    [fn |-> "_goto_axis", pc |-> "vals", axis |-> axis, value |-> value]

Microscope_goto_frame(new_position) ==
    [fn |-> "Microscope_goto", pc |-> "l164", new_position |-> new_position]

scan_line_frame(fast_ax, nlines, reverse) ==
    [fn |-> "scan_line", pc |-> "l178", fast_ax |-> fast_ax, nlines |-> nlines,
     reverse |-> reverse]

goto_start_of_next_line_frame(fast_ax, nlines) ==
    [fn |-> "goto_start_of_next_line", pc |-> "l203", fast_ax |-> fast_ax, nlines |-> nlines]

scan_plane_frame(fast_ax, nlines) ==
    [fn |-> "scan_plane", pc |-> "l263", old_pos |-> NoPos,
     fast_ax |-> fast_ax, nlines |-> nlines,
     \* position of the qc.Loop sweep over the slow axis (0-based), and the
     \* action of .each(...) / .then(...) that runs next (1-based)
     i |-> 0, a |-> 1,
     \* history: the state of Scanner.ao_task when a KeyboardInterrupt reached
     \* the try block, "no" while none did
     irq |-> "no"]

\* no value: Python's None where a number, a pair or a string is expected
None == <<>>

\* Scanner.td_has_occurred and .td_height, and the three fields check_for_td
\* writes on the plot; __init__ sets none of them and nothing reads them before
\* the first check_for_td has
NoVerdict ==
    [td_has_occurred |-> FALSE, td_height |-> None, tdc_plot_td_height |-> None,
     pre_td_slope |-> None, post_td_slope |-> None]

\* plots.TDCPlot as check_for_td reads it: the samples of the CAP channel, the
\* planned heights and the prefactor of the CAP channel
TDCPlot(data, heights, prefactor) ==
    [data |-> data, heights |-> heights, prefactor |-> prefactor]

check_for_td_frame(tdc_plot) ==
    [fn |-> "check_for_td", pc |-> "l223", tdc_plot |-> tdc_plot, pt |-> 0,
     \* history: the line fits of 246-276 ran in this call; the value it returns
     fitted |-> FALSE, returns |-> FALSE]

tdCAP_frame == [fn |-> "tdCAP", pc |-> "l176", old_pos |-> NoPos]

(***************************************************************************)
(* Bounds of the model.                                                    *)
(***************************************************************************)
\* largest number of lines of a scan grid
MaxLines == 2

(***************************************************************************)
(* Configuration (the microscope configuration JSON file).                 *)
(***************************************************************************)
TEMPS == {"RT", "LT"}
AXES == <<"x", "y", "z">>

\* instruments.scanner of the configuration file; a limit pair may be
\* written in either order
scanner_config ==
    [speed |-> 1,
     voltage_limits |->
        [RT |-> [x |-> <<2, 0>>, y |-> <<0, 2>>, z |-> <<0, 1>>],
         LT |-> [x |-> <<-1, 1>>, y |-> <<1, -1>>, z |-> <<0, -1>>]],
     voltage_retract |-> [RT |-> 1, LT |-> -1]]

\* instruments.daq of the configuration file: the sampling rate in Hz
daq_config == [rate |-> 1]

\* Python's sorted() on a pair
sorted(pair) == IF pair[1] <= pair[2] THEN pair ELSE <<pair[2], pair[1]>>

min(pair) == IF pair[1] <= pair[2] THEN pair[1] ELSE pair[2]

max(pair) == IF pair[1] >= pair[2] THEN pair[1] ELSE pair[2]

\* Scanner.voltage_limits as built by _parse_unitful_quantities
voltage_limits ==
    [t \in TEMPS |-> [a \in {"x", "y", "z"} |-> sorted(scanner_config.voltage_limits[t][a])]]

voltage_retract_room_temperature ==
    [t \in TEMPS |-> scanner_config.voltage_retract["RT"]]

\* Scanner.voltage_retract as built by _parse_unitful_quantities
voltage_retract == scanner_config.voltage_retract

\* vals.Numbers(min(v_limits), max(v_limits)) of the parameter `position`:
\* one range, the union over the three axes
RECURSIVE seq_min(_)
seq_min(s) ==
    IF Len(s) = 1 THEN s[1]
    ELSE IF s[1] <= seq_min(Tail(s)) THEN s[1] ELSE seq_min(Tail(s))

RECURSIVE seq_max(_)
seq_max(s) ==
    IF Len(s) = 1 THEN s[1]
    ELSE IF s[1] >= seq_max(Tail(s)) THEN s[1] ELSE seq_max(Tail(s))

v_limits(t) ==
    voltage_limits[t]["x"] \o voltage_limits[t]["y"] \o voltage_limits[t]["z"]

position_vals(t, new_position) ==
    \A i \in 1..3 : /\ new_position[i] >= seq_min(v_limits(t))
                    /\ new_position[i] <= seq_max(v_limits(t))

\* vals.Numbers(min(lims_V), max(lims_V)) of the parameter `position_<axis>`
position_axis_vals(t, i, value) ==
    /\ value >= min(voltage_limits[t][AXES[i]])
    /\ value <= max(voltage_limits[t][AXES[i]])

(***************************************************************************)
(* Speeds.  A speed argument is None, a unitful string such as '2 V/s', or *)
(* a bare number; ureg.Quantity(speed).to('V/s') of a bare number is a     *)
(* dimensionless quantity and the conversion raises DimensionalityError.   *)
(***************************************************************************)
NoSpeed == [kind |-> "none", v |-> 0]

SpeedStr(v) == [kind |-> "str", v |-> v]

SpeedNum(v) == [kind |-> "number", v |-> v]

\* `speed is None` -> self.speed, else self.Q_(speed).to('V/s').magnitude
speed_converts(speed) == speed.kind # "number"

speed_magnitude(speed) ==
    IF speed.kind = "none" THEN scanner_config.speed ELSE speed.v

(***************************************************************************)
(* make_ramp: npts samples per axis, np.linspace(pos0[i], pos1[i], npts).  *)
(* Sample k (1-based) of axis i is  pos0[i] + (k-1)*(pos1[i]-pos0[i])/(npts-1);*)
(* the ramp holds the numerators over the common denominator npts-1.       *)
(***************************************************************************)
abs(n) == IF n < 0 THEN -n ELSE n

max_ramp_distance(pos0, pos1) ==
    seq_max(<<abs(pos1[1] - pos0[1]), abs(pos1[2] - pos0[2]), abs(pos1[3] - pos0[3])>>)

ramp_npts_one_endpoint(pos0, pos1, speed) ==
    ((max_ramp_distance(pos0, pos1) * daq_config.rate) \div speed) + 1

\* npts = int(ramp_time * self.daq_rate) + 2, ramp_time = max_ramp_distance/speed
ramp_npts(pos0, pos1, speed) ==
    ((max_ramp_distance(pos0, pos1) * daq_config.rate) \div speed) + 2

make_ramp(pos0, pos1, speed) ==
    LET npts == ramp_npts(pos0, pos1, speed)
    IN  [npts |-> npts,
         den |-> npts - 1,
         num |-> [i \in 1..3 |->
                    [k \in 1..npts |-> pos0[i] * (npts - 1) + (k - 1) * (pos1[i] - pos0[i])]]]

\* the voltages the outputs hold once a ramp has been written out: its last column
ramp_end(ramp) ==
    <<ramp.num[1][ramp.npts] \div ramp.den,
      ramp.num[2][ramp.npts] \div ramp.den,
      ramp.num[3][ramp.npts] \div ramp.den>>

\* ai_task.read() of the three position channels, rounded to 3 decimals:
\* the inputs monitor the outputs, whole volts are unchanged by the rounding
ai_read(out) == out

(***************************************************************************)
(* Limit check of goto (scanner.py 118-123).                               *)
(***************************************************************************)
out_of_range_upper_only(t, new_pos) ==
    \E i \in 1..3 :
        LET ax_lim == sorted(voltage_limits[t][AXES[i]])
        IN  new_pos[i] > max(ax_lim)

out_of_range_strict(t, new_pos) ==
    \E i \in 1..3 :
        LET ax_lim == sorted(voltage_limits[t][AXES[i]])
        IN  new_pos[i] <= min(ax_lim) \/ new_pos[i] >= max(ax_lim)

out_of_range_z_unchecked(t, new_pos) ==
    \E i \in 1..2 :
        LET ax_lim == sorted(voltage_limits[t][AXES[i]])
        IN  new_pos[i] < min(ax_lim) \/ new_pos[i] > max(ax_lim)

out_of_range(t, new_pos) ==
    \E i \in 1..3 :
        LET ax_lim == sorted(voltage_limits[t][AXES[i]])
        IN  new_pos[i] < min(ax_lim) \/ new_pos[i] > max(ax_lim)

\* the measurement configuration: pts_per_line of scan_plane, from scan_size,
\* scan_rate and the DAQ rate
scan_params == [pts_per_line |-> 2]

PtsPerLine == scan_params.pts_per_line

(***************************************************************************)
(* Scan grids (utils.make_scan_vectors / utils.make_scan_grids): line l,   *)
(* sample s of each axis.  The slow axis steps one volt per line from its  *)
(* lower limit, the fast axis one volt per sample, z is the plane height.  *)
(***************************************************************************)
scan_vectors(t, fast_ax, nlines) ==
    LET slow_ax == IF fast_ax = "y" THEN "x" ELSE "y"
    IN  [slow |-> [l \in 1..nlines |-> min(voltage_limits[t][slow_ax]) + (l - 1)],
         fast |-> [s \in 1..PtsPerLine |-> min(voltage_limits[t][fast_ax]) + (s - 1)]]

scan_grids(t, fast_ax, nlines) ==
    LET vec == scan_vectors(t, fast_ax, nlines)
        slow_ax == IF fast_ax = "y" THEN "x" ELSE "y"
    IN  [a \in {"x", "y", "z"} |->
            [l \in 1..nlines |->
                [s \in 1..PtsPerLine |->
                    IF a = fast_ax THEN vec.fast[s]
                    ELSE IF a = slow_ax THEN vec.slow[l]
                    ELSE min(voltage_limits[t]["z"])]]]

\* [scan_grids[axis][line][sample] for axis in ['x', 'y', 'z']], 1-based
grid_point(grids, l, s) == <<grids["x"][l][s], grids["y"][l][s], grids["z"][l][s]>>

(***************************************************************************)
(* Scanner.ao_task: the attribute is missing ("none") until the first      *)
(* scan_line; then it is a task: created, loaded (samples queued), running,*)
(* done, stopped or closed.  `out` holds the queued samples, one <<x, y, z>>*)
(* per sample clock tick.                                                  *)
(***************************************************************************)
AoOpen(task) == task.st \in {"created", "loaded", "running", "done", "stopped"}

\* the task holds the output channels: from the write of its samples (scanner.py
\* 194) until it is closed
AoReserved(task) == task.st \in {"loaded", "running", "done", "stopped"}

\* Scanner.control_ao_task (scanner.py 293-301): getattr(self.ao_task, cmd)()
\* when the attribute exists.  A closed task refuses every command but close().
control_ao_task_forwards(task) == task.st # "none"

control_ao_task_raises(task, cmd) == task.st = "closed" /\ cmd # "close"

control_ao_task(task, cmd) ==
    IF ~control_ao_task_forwards(task) \/ task.st = "closed" THEN task
    ELSE CASE cmd = "start" -> [task EXCEPT !.st = "running"]
           \* the queued samples are consumed once the task is done or stopped
           [] cmd = "wait_until_done" -> [st |-> "done", out |-> <<>>]
           [] cmd = "stop" -> [st |-> "stopped", out |-> <<>>]
           [] cmd = "close" -> [st |-> "closed", out |-> <<>>]

\* the voltages the outputs can hold after the command: a finished task has
\* written its last sample, a task stopped while running any of its samples
ao_out_after(task, cmd) ==
    IF task.st = "running" /\ cmd = "wait_until_done" THEN {task.out[Len(task.out)]}
    ELSE IF task.st = "running" /\ cmd = "stop" THEN
        {ao_out} \cup {task.out[k] : k \in 1..Len(task.out)}
    ELSE {ao_out}

(***************************************************************************)
(* The call stack.                                                         *)
(***************************************************************************)
Top == stack[Len(stack)]

\* the function `fn` is running: it is on top of the stack and no exception is in flight
Running(fn) == exc = "none" /\ stack # <<>> /\ Top.fn = fn

\* the running frame with some locals changed
SetTop(f) == [stack EXCEPT ![Len(stack)] = f]

\* the running function goes on at pc
GoOn(pc) == stack' = SetTop([Top EXCEPT !.pc = pc])

\* the running function calls `frame` and will go on at pc when it returns
Call(pc, frame) == stack' = Append(SetTop([Top EXCEPT !.pc = pc]), frame)

\* the running function returns v
Return(v) ==
    /\ stack' = SubSeq(stack, 1, Len(stack) - 1)
    /\ ret' = IF Len(stack) = 1 THEN NoPos ELSE v
    /\ result' = IF Len(stack) = 1 THEN "returned" ELSE result

\* the running function raises e: the frames stay until the exception has passed them
Raise(e) == exc' = e /\ UNCHANGED <<stack, ret, result>>

hw == <<ao_out, goto_ao_task, get_pos_ai_task, ao_task, ai_task>>

\* what moves and scans read and leave alone (scan_plane changes the two flags)
conf == <<temp, plane_is_current, amplitude, td>>

hist == <<ao_writes, events>>

(***************************************************************************)
(* Scanner.get_pos (scanner.py 86-97).                                     *)
(***************************************************************************)
get_pos ==
    /\ Running("get_pos")
    /\ \/ /\ Top.pc = "l89"
          \* with nidaqmx.Task('get_pos_ai_task') as ai_task
          /\ get_pos_ai_task' = TRUE
          /\ GoOn("l94")
          /\ UNCHANGED <<ret, result, ao_out, goto_ao_task, ao_task, ai_task>>
       \/ /\ Top.pc = "l94"
          \* add the channels, read, leave the with block (the task is closed)
          /\ get_pos_ai_task' = FALSE
          /\ Return(ai_read(ao_out))
          /\ UNCHANGED <<ao_out, goto_ao_task, ao_task, ai_task>>
    /\ UNCHANGED <<conf, counter, exc, interrupted, hist>>

(***************************************************************************)
(* Scanner.goto (scanner.py 99-149).                                       *)
(***************************************************************************)
goto ==
    /\ Running("goto")
    /\ LET f == Top
           speed == speed_magnitude(f.speed)
       IN
       CASE f.pc = "l113" ->
            \* old_pos = self.position()
            /\ Call("l114", get_pos_frame)
            /\ UNCHANGED <<hw, exc, ret, result, ao_writes>>
         [] f.pc = "l114" ->
            \* speed conversion (114-117), then the limit check (118-123)
            IF ~speed_converts(f.speed) THEN
                Raise("DimensionalityError") /\ UNCHANGED <<hw, ao_writes>>
            ELSE IF out_of_range(temp, f.new_pos) THEN
                Raise("ValueError") /\ UNCHANGED <<hw, ao_writes>>
            ELSE
                /\ stack' = SetTop([f EXCEPT !.old_pos = ret,
                                             !.pc = IF f.retract_first THEN "l137" ELSE "l126"])
                /\ UNCHANGED <<hw, exc, ret, result, ao_writes>>
         [] f.pc = "l126" ->
            \* ramp = make_ramp(...); with nidaqmx.Task('goto_ao_task') as ao_task
            /\ goto_ao_task' = TRUE
            /\ GoOn("l131")
            /\ UNCHANGED <<ao_out, get_pos_ai_task, ao_task, ai_task, exc, ret, result,
                           ao_writes>>
         [] f.pc = "l131" ->
            \* channels, timing, write, start, wait_until_done, leave the with block
            IF AoReserved(ao_task) THEN
                \* the outputs are held by the scan-line task until it is closed
                \* ("Stop and close AO task so that AOs can be used for goto")
                Raise("DaqError") /\ UNCHANGED <<hw, ao_writes>>
            ELSE
                /\ ao_out' = ramp_end(make_ramp(f.old_pos, f.new_pos, speed))
                /\ ao_writes' = ao_writes + 1
                /\ goto_ao_task' = FALSE
                /\ GoOn("l142")
                /\ UNCHANGED <<get_pos_ai_task, ao_task, ai_task, exc, ret, result>>
         [] f.pc = "l137" ->
            \* self.retract(speed=speed): speed is the magnitude, a bare number
            /\ Call("l138", retract_frame(SpeedNum(speed)))
            /\ UNCHANGED <<hw, exc, ret, result, ao_writes>>
         [] f.pc = "l138" ->
            /\ Call("l139", get_pos_frame)
            /\ UNCHANGED <<hw, exc, ret, result, ao_writes>>
         [] f.pc = "l139" ->
            /\ Call("l140", goto_frame(<<f.new_pos[1], f.new_pos[2], ret[3]>>,
                                       FALSE, SpeedNum(speed), FALSE))
            /\ UNCHANGED <<hw, exc, ret, result, ao_writes>>
         [] f.pc = "l140" ->
            /\ Call("l141", get_pos_frame)
            /\ UNCHANGED <<hw, exc, ret, result, ao_writes>>
         [] f.pc = "l141" ->
            /\ Call("l142", goto_frame(<<ret[1], ret[2], f.new_pos[3]>>,
                                       FALSE, SpeedNum(speed), FALSE))
            /\ UNCHANGED <<hw, exc, ret, result, ao_writes>>
         [] f.pc = "l142" ->
            \* current_pos = self.position()
            /\ Call("l147", get_pos_frame)
            /\ UNCHANGED <<hw, exc, ret, result, ao_writes>>
         [] f.pc = "l147" ->
            \* log, metadata['position'].update(...), return
            /\ Return(ret)
            /\ UNCHANGED <<hw, exc, ao_writes>>
    /\ UNCHANGED <<conf, counter, interrupted, events>>

(***************************************************************************)
(* Scanner.retract (scanner.py 151-164).                                   *)
(***************************************************************************)
retract ==
    /\ Running("retract")
    /\ LET f == Top
       IN
       CASE f.pc = "l158" ->
            \* speed conversion (158-161), then current_pos = self.position()
            IF ~speed_converts(f.speed) THEN
                Raise("DimensionalityError")
            ELSE
                Call("l164", get_pos_frame) /\ UNCHANGED <<exc, ret, result>>
         [] f.pc = "l164" ->
            /\ Call("l165", goto_frame(<<ret[1], ret[2], voltage_retract[temp]>>, FALSE,
                                       SpeedStr(speed_magnitude(f.speed)), FALSE))
            /\ UNCHANGED <<exc, ret, result>>
         [] f.pc = "l165" ->
            Return(ret) /\ UNCHANGED exc
    /\ UNCHANGED <<hw, conf, counter, interrupted, hist>>

(***************************************************************************)
(* position_x/_y/_z.set(value): the parameter's validator, then            *)
(* Scanner._goto_x/_y/_z (scanner.py 329-354).                             *)
(***************************************************************************)
goto_axis_target_from_origin(current_pos, axis, value) ==
    [<<0, 0, 0>> EXCEPT ![axis] = value]

\* [xpos, current_pos[1], current_pos[2]] and its like for y and z
goto_axis_target(current_pos, axis, value) == [current_pos EXCEPT ![axis] = value]

goto_axis ==
    /\ Running("_goto_axis")
    /\ LET f == Top
       IN
       CASE f.pc = "vals" ->
            IF ~position_axis_vals(temp, f.axis, f.value) THEN
                Raise("ValueError")
            ELSE
                \* current_pos = self.get_pos()  /  self.position()
                Call("goto", get_pos_frame) /\ UNCHANGED <<exc, ret, result>>
         [] f.pc = "goto" ->
            /\ Call("return", goto_frame(goto_axis_target(ret, f.axis, f.value),
                                        FALSE, NoSpeed, TRUE))
            /\ UNCHANGED <<exc, ret, result>>
         [] f.pc = "return" ->
            Return(ret) /\ UNCHANGED exc
    /\ UNCHANGED <<hw, conf, counter, interrupted, hist>>

(***************************************************************************)
(* Microscope.goto (microscope.py 158-164): self.scanner.position(p), the  *)
(* parameter's validator and then Scanner.goto.                            *)
(***************************************************************************)
Microscope_goto ==
    /\ Running("Microscope_goto")
    /\ LET f == Top
       IN
       CASE f.pc = "l164" ->
            IF ~position_vals(temp, f.new_position) THEN
                Raise("ValueError")
            ELSE
                /\ Call("return", goto_frame(f.new_position, FALSE, NoSpeed, FALSE))
                /\ UNCHANGED <<exc, ret, result>>
         [] f.pc = "return" ->
            Return(ret) /\ UNCHANGED exc
    /\ UNCHANGED <<hw, conf, counter, interrupted, hist>>

Event(e) == [e |-> e, line |-> counter]

(***************************************************************************)
(* Scanner.scan_line (scanner.py 166-194).                                 *)
(***************************************************************************)
line_samples_forward(grids, line, reverse) ==
    [k \in 1..PtsPerLine |-> grid_point(grids, line + 1, k)]

\* scan_grids[axis][line][::step] for the three axes, as samples <<x, y, z>>
line_samples(grids, line, reverse) ==
    [k \in 1..PtsPerLine |->
        grid_point(grids, line + 1, IF reverse THEN PtsPerLine + 1 - k ELSE k)]

scan_line ==
    /\ Running("scan_line")
    /\ LET f == Top
       IN
       CASE f.pc = "l178" ->
            \* self.ao_task = nidaqmx.Task('scan_line_ao_task'); a task of that
            \* name that is still open makes the constructor raise
            IF AoOpen(ao_task) THEN
                Raise("DaqError") /\ UNCHANGED <<ao_task, hist>>
            ELSE
                /\ ao_task' = [st |-> "created", out |-> <<>>]
                /\ GoOn("l180")
                /\ UNCHANGED <<exc, ret, result, hist>>
         [] f.pc = "l180" ->
            \* line = counter.count; channels, timing, write(auto_start=False)
            /\ ao_task' = [st |-> "loaded",
                           out |-> line_samples(scan_grids(temp, f.fast_ax, f.nlines),
                                                counter, f.reverse)]
            /\ ao_writes' = ao_writes + 1
            /\ events' = Append(events, Event("scan_line"))
            /\ Return(NoPos)
            /\ UNCHANGED exc
    /\ UNCHANGED <<ao_out, goto_ao_task, get_pos_ai_task, ai_task, conf, counter, interrupted>>

(***************************************************************************)
(* Scanner.goto_start_of_next_line (scanner.py 196-209).                   *)
(***************************************************************************)
no_next_line_early(line, nlines) == line + 2 >= nlines

\* scan_grids[axis][line+1] raises IndexError
no_next_line(line, nlines) == line + 1 >= nlines

start_of_this_line(grids, line) == grid_point(grids, line + 1, 1)

\* [scan_grids[axis][line+1][0] for axis in ['x', 'y', 'z']]
start_of_next_line(grids, line) == grid_point(grids, (line + 1) + 1, 1)

goto_start_of_next_line ==
    /\ Running("goto_start_of_next_line")
    /\ LET f == Top
       IN
       CASE f.pc = "l203" ->
            IF no_next_line(counter, f.nlines) THEN
                \* except IndexError: pass
                /\ events' = Append(events, Event("next_line_noop"))
                /\ GoOn("l209")
                /\ UNCHANGED <<exc, ret, result>>
            ELSE
                /\ events' = Append(events, Event("next_line_goto"))
                /\ Call("l209",
                        goto_frame(start_of_next_line(scan_grids(temp, f.fast_ax, f.nlines),
                                                      counter),
                                   FALSE, NoSpeed, TRUE))
                /\ UNCHANGED <<exc, ret, result>>
         [] f.pc = "l209" ->
            /\ events' = Append(events, Event("next_line_done"))
            /\ Return(NoPos)
            /\ UNCHANGED exc
    /\ UNCHANGED <<hw, conf, counter, interrupted, ao_writes>>

(***************************************************************************)
(* SusceptometerMicroscope.scan_plane (microscope.py 249-391).             *)
(***************************************************************************)
\* the actions of qc.Loop(...).each(...), microscope.py 343-363, in order
loop_actions_output_first ==
    <<"scan_line", "ao_start", "ai_start", "voltage", "ai_wait_until_done",
      "ao_wait_until_done", "ai_stop", "ao_stop", "ao_close",
      "goto_start_of_next_line", "plot", "advance">>

loop_actions_advance_first ==
    <<"scan_line", "ai_start", "ao_start", "voltage", "ai_wait_until_done",
      "ao_wait_until_done", "ai_stop", "ao_stop", "ao_close",
      "advance", "goto_start_of_next_line", "plot">>

loop_actions_advance_early ==
    <<"scan_line", "ai_start", "ao_start", "voltage", "advance", "ai_wait_until_done",
      "ao_wait_until_done", "ai_stop", "ao_stop", "ao_close",
      "goto_start_of_next_line", "plot">>

loop_actions ==
    <<"scan_line", "ai_start", "ao_start", "voltage", "ai_wait_until_done",
      "ao_wait_until_done", "ai_stop", "ao_stop", "ao_close",
      "goto_start_of_next_line", "plot", "advance">>

\* the actions of .then(...), microscope.py 363-368, in order
then_actions == <<"clear_instances", "goto_old_pos", "CAP_amplitude", "SUSC_amplitude">>

\* the part of scan_plane inside `try:` (loop.run(), 376-378)
TryPcs == {"sweep", "each", "then"}

\* the part of scan_plane inside `with nidaqmx.Task('scan_plane_ai_task')` (317-389)
WithPcs == TryPcs \cup {"l383", "l384", "l385", "l386", "l387", "l388", "l390"}

\* the frame after the running .each action: the next action, or the next sweep value
after_each(f) ==
    IF f.a < Len(loop_actions) THEN [f EXCEPT !.a = f.a + 1]
    ELSE [f EXCEPT !.pc = "sweep", !.i = f.i + 1, !.a = 1]

after_then(f) ==
    IF f.a < Len(then_actions) THEN [f EXCEPT !.a = f.a + 1]
    ELSE [f EXCEPT !.pc = "l390"]

\* utils.Counter.advance
advance(count) == count + 1

slow_axis(fast_ax) == IF fast_ax = "y" THEN 1 ELSE 2

\* the command a control_ao_task action of the loop passes on
ao_cmd(act) ==
    CASE act = "ao_start" -> "start"
      [] act = "ao_wait_until_done" -> "wait_until_done"
      [] act = "ao_stop" -> "stop"
      [] act = "ao_close" -> "close"

plane_check_skipped(flag) == FALSE

\* 263: if not self.scanner.metadata['position']['plane_is_current']
plane_not_current(flag) == ~flag

\* scan_plane up to the loop: 263-339
scan_plane_setup ==
    /\ Running("scan_plane")
    /\ Top.pc \in {"l263", "l295", "l296", "l317"}
    /\ LET f == Top
       IN
       CASE f.pc = "l263" ->
            IF plane_not_current(plane_is_current) THEN
                Raise("RuntimeError") /\ UNCHANGED <<amplitude, ai_task, counter, events>>
            ELSE
                \* old_pos = self.scanner.position()
                /\ Call("l295", get_pos_frame)
                /\ UNCHANGED <<exc, ret, result, amplitude, ai_task, counter, events>>
         [] f.pc = "l295" ->
            \* self.goto(first point of the grid)
            /\ stack' = Append(SetTop([f EXCEPT !.old_pos = ret, !.pc = "l296"]),
                               Microscope_goto_frame(
                                   grid_point(scan_grids(temp, f.fast_ax, f.nlines), 1, 1)))
            /\ UNCHANGED <<exc, ret, result, amplitude, ai_task, counter, events>>
         [] f.pc = "l296" ->
            \* self.set_lockins(scan_params)
            /\ amplitude' = <<"scan", "scan">>
            /\ GoOn("l317")
            /\ UNCHANGED <<exc, ret, result, ai_task, counter, events>>
         [] f.pc = "l317" ->
            \* with nidaqmx.Task('scan_plane_ai_task') as ai_task ... loop_counter = utils.Counter()
            /\ ai_task' = "created"
            /\ counter' = 0
            /\ events' = <<>>
            /\ GoOn("sweep")
            /\ UNCHANGED <<exc, ret, result, amplitude>>
    /\ UNCHANGED <<temp, td, plane_is_current, ao_out, goto_ao_task, get_pos_ai_task, ao_task,
                   interrupted, ao_writes>>

\* qc.Loop: set the next value of the slow axis, or go on to the .then actions
scan_plane_sweep ==
    /\ Running("scan_plane")
    /\ Top.pc = "sweep"
    /\ LET f == Top
       IN
       IF f.i < f.nlines THEN
           /\ stack' = Append(SetTop([f EXCEPT !.pc = "each", !.a = 1]),
                              goto_axis_frame(slow_axis(f.fast_ax),
                                  scan_vectors(temp, f.fast_ax, f.nlines).slow[f.i + 1]))
           /\ events' = Append(events, Event("sweep_set"))
       ELSE
           /\ stack' = SetTop([f EXCEPT !.pc = "then", !.a = 1])
           /\ UNCHANGED events
    /\ UNCHANGED <<hw, conf, counter, exc, ret, result, interrupted, ao_writes>>

\* one action of .each(...)
scan_plane_each ==
    /\ Running("scan_plane")
    /\ Top.pc = "each"
    /\ LET f == Top
           act == loop_actions[f.a]
       IN
       CASE act = "scan_line" ->
            /\ stack' = Append(SetTop(after_each(f)), scan_line_frame(f.fast_ax, f.nlines, FALSE))
            /\ UNCHANGED <<ao_out, ao_task, ai_task, counter, events, exc>>
         [] act = "ai_start" ->
            /\ ai_task' = "started"
            /\ events' = Append(events, Event(act))
            /\ stack' = SetTop(after_each(f))
            /\ UNCHANGED <<ao_out, ao_task, counter, exc>>
         [] act \in {"ao_start", "ao_wait_until_done", "ao_stop", "ao_close"} ->
            \* qc.Task(self.scanner.control_ao_task, cmd)
            IF control_ao_task_raises(ao_task, ao_cmd(act)) THEN
                /\ exc' = "DaqError"
                /\ UNCHANGED <<stack, ao_out, ao_task, ai_task, counter, events>>
            ELSE
                /\ ao_task' = control_ao_task(ao_task, ao_cmd(act))
                /\ ao_out' \in ao_out_after(ao_task, ao_cmd(act))
                /\ events' = Append(events, Event(act))
                /\ stack' = SetTop(after_each(f))
                /\ UNCHANGED <<ai_task, counter, exc>>
         [] act = "voltage" ->
            \* self.daq_ai.voltage: read the line's samples
            /\ events' = Append(events, Event(act))
            /\ stack' = SetTop(after_each(f))
            /\ UNCHANGED <<ao_out, ao_task, ai_task, counter, exc>>
         [] act = "ai_wait_until_done" ->
            /\ ai_task' = "done"
            /\ events' = Append(events, Event(act))
            /\ stack' = SetTop(after_each(f))
            /\ UNCHANGED <<ao_out, ao_task, counter, exc>>
         [] act = "ai_stop" ->
            /\ ai_task' = "stopped"
            /\ events' = Append(events, Event(act))
            /\ stack' = SetTop(after_each(f))
            /\ UNCHANGED <<ao_out, ao_task, counter, exc>>
         [] act = "goto_start_of_next_line" ->
            /\ stack' = Append(SetTop(after_each(f)),
                               goto_start_of_next_line_frame(f.fast_ax, f.nlines))
            /\ UNCHANGED <<ao_out, ao_task, ai_task, counter, events, exc>>
         [] act = "plot" ->
            \* scan_plot.update, scan_plot.save
            /\ stack' = SetTop(after_each(f))
            /\ UNCHANGED <<ao_out, ao_task, ai_task, counter, events, exc>>
         [] act = "advance" ->
            /\ counter' = advance(counter)
            /\ events' = Append(events, Event(act))
            /\ stack' = SetTop(after_each(f))
            /\ UNCHANGED <<ao_out, ao_task, ai_task, exc>>
    /\ UNCHANGED <<conf, goto_ao_task, get_pos_ai_task, ret, result, interrupted,
                   ao_writes>>

\* one action of .then(...)
scan_plane_then ==
    /\ Running("scan_plane")
    /\ Top.pc = "then"
    /\ LET f == Top
           act == then_actions[f.a]
       IN
       CASE act = "clear_instances" ->
            /\ events' = Append(events, Event(act))
            /\ stack' = SetTop(after_then(f))
            /\ UNCHANGED amplitude
         [] act = "goto_old_pos" ->
            /\ events' = Append(events, Event(act))
            /\ stack' = Append(SetTop(after_then(f)), Microscope_goto_frame(f.old_pos))
            /\ UNCHANGED amplitude
         [] act = "CAP_amplitude" ->
            /\ amplitude' = [amplitude EXCEPT ![1] = "0.004"]
            /\ events' = Append(events, Event(act))
            /\ stack' = SetTop(after_then(f))
         [] act = "SUSC_amplitude" ->
            /\ amplitude' = [amplitude EXCEPT ![2] = "0.004"]
            /\ events' = Append(events, Event(act))
            /\ stack' = SetTop(after_then(f))
    /\ UNCHANGED <<hw, temp, td, plane_is_current, counter, exc, ret, result, interrupted,
                   ao_writes>>

\* except KeyboardInterrupt: (380-389)
scan_plane_interrupt_handler ==
    /\ Running("scan_plane")
    /\ Top.pc \in {"l383", "l384", "l385", "l386", "l387", "l388"}
    /\ LET f == Top
       IN
       CASE f.pc = "l383" ->
            \* if nidaqmx.system.System.local().tasks.task_names: the names of the
            \* tasks saved on the system, which the program neither adds to nor
            \* removes from
            /\ \E saved_task_names \in BOOLEAN :
                   GoOn(IF saved_task_names THEN "l384" ELSE "l386")
            /\ UNCHANGED <<ao_out, ao_task, amplitude, exc, events>>
         [] f.pc \in {"l384", "l385"} ->
            LET cmd == IF f.pc = "l384" THEN "stop" ELSE "close"
            IN  IF control_ao_task_raises(ao_task, cmd) THEN
                    /\ exc' = "DaqError"
                    /\ events' = Append(events, Event("handler_forward_to_closed"))
                    /\ UNCHANGED <<stack, ao_out, ao_task, amplitude>>
                ELSE
                    /\ ao_task' = control_ao_task(ao_task, cmd)
                    /\ ao_out' \in ao_out_after(ao_task, cmd)
                    /\ events' = Append(events, Event(IF cmd = "stop" THEN "handler_ao_stop"
                                                      ELSE "handler_ao_close"))
                    /\ GoOn(IF f.pc = "l384" THEN "l385" ELSE "l386")
                    /\ UNCHANGED <<amplitude, exc>>
         [] f.pc = "l386" ->
            /\ events' = Append(events, Event("handler_goto_old_pos"))
            /\ Call("l387", Microscope_goto_frame(f.old_pos))
            /\ UNCHANGED <<ao_out, ao_task, amplitude, exc>>
         [] f.pc = "l387" ->
            /\ amplitude' = [amplitude EXCEPT ![1] = "0.004"]
            /\ events' = Append(events, Event("handler_CAP_amplitude"))
            /\ GoOn("l388")
            /\ UNCHANGED <<ao_out, ao_task, exc>>
         [] f.pc = "l388" ->
            /\ amplitude' = [amplitude EXCEPT ![2] = "0.004"]
            /\ events' = Append(events, Event("handler_SUSC_amplitude"))
            /\ GoOn("l390")
            /\ UNCHANGED <<ao_out, ao_task, exc>>
    /\ UNCHANGED <<temp, td, plane_is_current, goto_ao_task, get_pos_ai_task, ai_task,
                   counter, ret, result, interrupted, ao_writes>>

\* the end of the with block (the input task is closed), then 390-391
scan_plane_exit ==
    /\ Running("scan_plane")
    /\ \/ /\ Top.pc = "l390"
          /\ ai_task' = "none"
          /\ GoOn("l391")
          /\ UNCHANGED <<ret, result, counter, events>>
       \/ /\ Top.pc = "l391"
          /\ Return(NoPos)
          /\ counter' = 0
          /\ events' = <<>>
          /\ UNCHANGED ai_task
    /\ UNCHANGED <<conf, ao_out, goto_ao_task, get_pos_ai_task, ao_task, exc, interrupted,
                   ao_writes>>

(***************************************************************************)
(* Exceptions.                                                             *)
(***************************************************************************)
\* the running function is about to call into the DAQ driver
HwCall(f) ==
    \/ f.fn = "get_pos" /\ f.pc = "l94"
    \/ f.fn = "goto" /\ f.pc \in {"l126", "l131"}
    \/ f.fn = "scan_line" /\ f.pc \in {"l178", "l180"}
    \/ /\ f.fn = "scan_plane"
       /\ \/ f.pc = "each" /\ loop_actions[f.a] \in
                {"ai_start", "ao_start", "voltage", "ai_wait_until_done",
                 "ao_wait_until_done", "ai_stop", "ao_stop", "ao_close"}
          \/ f.pc \in {"l317", "l384", "l385"}

\* a call into the DAQ driver fails (nidaqmx.DaqError)
hardware_error ==
    /\ exc = "none" /\ stack # <<>> /\ HwCall(Top)
    /\ exc' = "DaqError"
    /\ events' = IF ai_task # "none" THEN Append(events, Event("hardware_error")) ELSE events
    /\ UNCHANGED <<hw, conf, counter, stack, ret, result, interrupted, ao_writes>>

\* the user interrupts a running scan_plane (KeyboardInterrupt), once per call
keyboard_interrupt ==
    /\ exc = "none" /\ stack # <<>> /\ stack[1].fn = "scan_plane" /\ ~interrupted
    /\ exc' = "KeyboardInterrupt"
    /\ interrupted' = TRUE
    /\ UNCHANGED <<hw, conf, counter, stack, ret, result, hist>>

\* the exception in flight leaves the frame on top of the stack, or is caught by it
propagate ==
    /\ exc # "none" /\ stack # <<>>
    /\ LET f == Top
           caught == f.fn = "scan_plane" /\ f.pc \in TryPcs /\ exc = "KeyboardInterrupt"
       IN
       /\ IF caught THEN
              /\ stack' = SetTop([f EXCEPT !.pc = "l383", !.irq = ao_task.st])
              /\ exc' = "none"
              /\ UNCHANGED result
          ELSE
              /\ stack' = SubSeq(stack, 1, Len(stack) - 1)
              /\ exc' = IF Len(stack) = 1 THEN "none" ELSE exc
              /\ result' = IF Len(stack) = 1 THEN exc ELSE result
       \* the with blocks close their tasks
       /\ get_pos_ai_task' = IF f.fn = "get_pos" /\ f.pc = "l94" THEN FALSE
                             ELSE get_pos_ai_task
       /\ goto_ao_task' = IF f.fn = "goto" /\ f.pc = "l131" THEN FALSE ELSE goto_ao_task
       /\ ai_task' = IF f.fn = "scan_plane" /\ f.pc \in WithPcs /\ ~caught THEN "none"
                     ELSE ai_task
       /\ counter' = IF f.fn = "scan_plane" /\ ~caught THEN 0 ELSE counter
       /\ events' = IF f.fn = "scan_plane" /\ ~caught THEN <<>> ELSE events
    /\ ret' = NoPos
    /\ UNCHANGED <<conf, ao_out, ao_task, interrupted, ao_writes>>

(***************************************************************************)
(* The user's calls.                                                       *)
(***************************************************************************)
\* values a caller asks for on axis i: the limits and their neighbours outside
TargetValues(t, i) ==
    LET lims == voltage_limits[t][AXES[i]]
    IN  {lims[1] - 1, lims[1], lims[2], lims[2] + 1}

Targets(t) ==
    {<<x, y, z>> : x \in TargetValues(t, 1), y \in TargetValues(t, 2), z \in TargetValues(t, 3)}

SpeedArgs == {NoSpeed, SpeedStr(2 * scanner_config.speed)}

\* the write count is kept per top-level call and starts from zero
user_call(frame) ==
    /\ stack = <<>>
    /\ stack' = <<IF frame.fn = "goto" THEN [frame EXCEPT !.w0 = 0] ELSE frame>>
    /\ result' = "running"
    /\ interrupted' = FALSE
    /\ ao_writes' = 0
    /\ UNCHANGED <<hw, conf, counter, exc, ret, events>>

call_goto ==
    \E new_pos \in Targets(temp), retract_first \in BOOLEAN, speed \in SpeedArgs :
        user_call(goto_frame(new_pos, retract_first, speed, FALSE))

\* between scans the user sends the scanner back to the origin
call_goto_origin == user_call(goto_frame(<<0, 0, 0>>, FALSE, NoSpeed, FALSE))

call_retract == \E speed \in SpeedArgs : user_call(retract_frame(speed))

call_position_axis ==
    \E i \in 1..3 : \E value \in TargetValues(temp, i) : user_call(goto_axis_frame(i, value))

call_scan_plane ==
    \E fast_ax \in {"x", "y"}, nlines \in 2..MaxLines :
        user_call(scan_plane_frame(fast_ax, nlines))

\* the plane is acquired (outside scanner.py and microscope.py): the flag is set
plane_acquired ==
    /\ stack = <<>>
    /\ ~plane_is_current
    /\ plane_is_current' = TRUE
    /\ UNCHANGED <<temp, td, amplitude, hw, counter, stack, exc, ret, result, interrupted,
                   hist>>

(***************************************************************************)
(* The specification.  Init is the state Scanner.__init__ leaves: the      *)
(* flag cleared (scanner.py 34) and the scanner at [0, 0, 0] (38).         *)
(***************************************************************************)
Init ==
    /\ temp \in TEMPS
    /\ ao_out = <<0, 0, 0>>
    /\ plane_is_current = FALSE
    /\ amplitude = <<"user", "user">>
    /\ goto_ao_task = FALSE
    /\ get_pos_ai_task = FALSE
    /\ ao_task = NoTask
    /\ ai_task = "none"
    /\ counter = 0
    /\ stack = <<>>
    /\ exc = "none"
    /\ ret = NoPos
    /\ result = "none"
    /\ interrupted = FALSE
    /\ ao_writes = 0
    /\ events = <<>>
    /\ td = NoVerdict

\* a session of scans, with moves to the origin and retracts between them
Next ==
    \/ call_scan_plane
    \/ plane_acquired
    \/ call_goto_origin
    \/ call_retract
    \/ get_pos
    \/ goto
    \/ retract
    \/ goto_axis
    \/ Microscope_goto
    \/ scan_line
    \/ goto_start_of_next_line
    \/ scan_plane_setup
    \/ scan_plane_sweep
    \/ scan_plane_each
    \/ scan_plane_then
    \/ scan_plane_interrupt_handler
    \/ scan_plane_exit
    \/ hardware_error
    \/ keyboard_interrupt
    \/ propagate

Spec == Init /\ [][Next]_vars

\* a session of moves: goto, retract and the single-axis setters, any target
MotionNext ==
    \/ call_goto
    \/ call_retract
    \/ call_position_axis
    \/ get_pos
    \/ goto
    \/ retract
    \/ goto_axis
    \/ hardware_error
    \/ propagate

MotionSpec == Init /\ [][MotionNext]_vars

(***************************************************************************)
(* Capacitive touchdown: Scanner.check_for_td (scanner.py 211-285) and     *)
(* SusceptometerMicroscope.tdCAP (microscope.py 166-217).                  *)
(*                                                                         *)
(* Capacitances are integers (in the unit of the CAP channel), heights are *)
(* integers (volts); slopes, intercepts and residuals are exact fractions  *)
(* <<numerator, denominator>> with a positive denominator.                 *)
(***************************************************************************)
\* number of heights of a touchdown sweep, len(tdc_plot.heights)
PlannedSteps == 17

\* tdc_plot.constants, from the measurement configuration
tdc_constants ==
    [max_delta_cap |-> 20, initial_cap |-> 0, max_slope |-> 1,
     N_fit_min |-> 1, N_fit_max |-> 3, N_window |-> 4]

\* the rail of the lock-in output, self.Q_('5 V') (scanner.py 241)
rail_voltage == 5

RECURSIVE gcd(_, _)
gcd(m, n) == IF n = 0 THEN m ELSE gcd(n, m % n)

\* the fraction n/d (d # 0) in lowest terms with a positive denominator
Fraction(n, d) ==
    LET g == gcd(abs(n), abs(d))
        sign == IF d < 0 THEN -1 ELSE 1
    IN  <<sign * (n \div g), sign * (d \div g)>>

\* float('inf'), larger than every fraction
inf == <<1, 0>>

Less(p, q) == p[1] * q[2] < q[1] * p[2]

Plus(p, q) ==
    IF p = inf \/ q = inf THEN inf ELSE Fraction(p[1] * q[2] + q[1] * p[2], p[2] * q[2])

Minus(p, q) == Fraction(p[1] * q[2] - q[1] * p[2], p[2] * q[2])

Quotient(p, q) == Fraction(p[1] * q[2], p[2] * q[1])

\* abs(p) > v for a fraction p and an integer v
AbsGreater(p, v) == abs(p[1]) > v * p[2]

\* Python's s[j] and s[lo:hi] for 0 <= j and 0 <= lo, on a 1-based sequence
At(s, j) == s[j + 1]

Slice(s, lo, hi) == SubSeq(s, lo + 1, IF hi < Len(s) THEN hi ELSE Len(s))

RECURSIVE sum(_)
sum(s) == IF s = <<>> THEN 0 ELSE s[1] + sum(Tail(s))

products(x, y) == [j \in 1..Len(x) |-> x[j] * y[j]]

\* utils.fit_line(x, y): the least-squares line through the points and its
\* residual; returns <<p, rms>> with p = <<slope, intercept>>
fit_line(x, y) ==
    LET n == Len(x)
        sxy == n * sum(products(x, y)) - sum(x) * sum(y)
        sxx == n * sum(products(x, x)) - sum(x) * sum(x)
        syy == n * sum(products(y, y)) - sum(y) * sum(y)
    IN  <<  <<Fraction(sxy, sxx), Fraction(sum(y) * sxx - sxy * sum(x), n * sxx)>>,
            Fraction(syy * sxx - sxy * sxy, n * sxx)  >>

\* the sum of the residuals of the two lines that meet at sample i (255-257)
partition_rms(hdata, cdata, pt, i) ==
    LET nwindow == tdc_constants.N_window
        rms0 == fit_line(Slice(hdata, pt - nwindow, i + 1), Slice(cdata, pt - nwindow, i + 1))[2]
        rms1 == fit_line(Slice(hdata, i, Len(hdata)), Slice(cdata, i, Len(cdata)))[2]
    IN  Plus(rms0, rms1)

\* 258: the partition replaces the best one so far
improves_or_ties(rms, rmsmin) == ~Less(rmsmin, rms)

improves(rms, rmsmin) == Less(rms, rmsmin)

\* the loop of 254-260 from partition i on: the partition with the least sum
RECURSIVE partition_search(_, _, _, _, _, _)
partition_search(hdata, cdata, pt, i, imin, rmsmin) ==
    IF i >= pt - tdc_constants.N_fit_min THEN imin
    ELSE LET rms == partition_rms(hdata, cdata, pt, i)
         IN  IF improves(rms, rmsmin) THEN partition_search(hdata, cdata, pt, i + 1, i, rms)
             ELSE partition_search(hdata, cdata, pt, i + 1, imin, rmsmin)

\* 252-260: imin, the partition the search selects
best_partition(hdata, cdata, pt) ==
    LET first == pt - tdc_constants.N_window + tdc_constants.N_fit_min
    IN  partition_search(hdata, cdata, pt, first, first, inf)

\* 261-264: the two lines of the best partition, <<p0, p1>>
partition_lines(hdata, cdata, pt) ==
    LET nwindow == tdc_constants.N_window
        imin == best_partition(hdata, cdata, pt)
    IN  << fit_line(Slice(hdata, pt - nwindow, imin + 1),
                    Slice(cdata, pt - nwindow, imin + 1))[1],
           fit_line(Slice(hdata, imin, Len(hdata)), Slice(cdata, imin, Len(cdata)))[1] >>

\* 238: one of the last two samples is further than max_delta_cap from initial_cap
too_unbalanced(cdata, pt) ==
    \E i \in 0..1 :
        abs(At(cdata, pt - i) - tdc_constants.initial_cap) > tdc_constants.max_delta_cap

\* 241: one of the last two samples, as a lock-in voltage, is beyond the rail
railing(cdata, pt, prefactor) ==
    \E i \in 0..1 : abs(At(cdata, pt - i)) > rail_voltage * prefactor

\* 237: the safety checks are made at this step
safety_checked(pt) == pt > 1

\* 279: the sweep is past the planned heights
range_exhausted_late(pt, heights) == pt > Len(heights)

range_exhausted(pt, heights) == pt >= Len(heights)

\* 246: the line fits are made at this step
fit_made_from_window(pt, heights) == pt < Len(heights) /\ pt > tdc_constants.N_window + 9

fit_made(pt, heights) == pt < Len(heights) /\ pt > tdc_constants.N_window + 10

\* 263: the slope of the line before the partition is too big
pre_slope_too_big_signed(p0) == p0[1][1] > tdc_constants.max_slope * p0[1][2]

pre_slope_too_big(p0) == AbsGreater(p0[1], tdc_constants.max_slope)

\* 266: the slopes of the two lines differ enough for a touchdown
slopes_differ(p0, p1) == AbsGreater(Minus(p0[1], p1[1]), tdc_constants.max_slope)

\* 268: the height at which the two lines meet
touchdown_height_swapped(p0, p1) == Quotient(Minus(p0[2], p1[2]), Minus(p0[1], p1[1]))

touchdown_height(p0, p1) == Quotient(Minus(p1[2], p0[2]), Minus(p0[1], p1[1]))

\* 223-224: the verdict of the scanner at the start of a step
verdict_kept(verdict) == verdict

verdict_reset(verdict) == [verdict EXCEPT !.td_has_occurred = FALSE, !.td_height = None]

\* '{} {}/V'.format(slope, cap_unit)
slope_string(slope) == <<slope, "cap_unit/V">>

check_for_td ==
    /\ Running("check_for_td")
    /\ LET tdc_plot == Top.tdc_plot
           pt == Top.pt
           cdata == Slice(tdc_plot.data, 0, pt + 1)
           hdata == Slice(tdc_plot.heights, 0, pt + 1)
       IN
       CASE Top.pc = "l223" ->
            \* 223-236
            /\ td' = verdict_reset(td)
            /\ stack' = SetTop([Top EXCEPT !.pc = "l237", !.pt = counter])
            /\ UNCHANGED <<exc, ret, result>>
         [] Top.pc = "l237" ->
            \* 237-243
            /\ IF ~safety_checked(pt) THEN
                   GoOn("l246") /\ UNCHANGED exc
               ELSE IF too_unbalanced(cdata, pt) \/ railing(cdata, pt, tdc_plot.prefactor) THEN
                   stack' = SetTop([Top EXCEPT !.pc = "return", !.returns = TRUE])
                   /\ UNCHANGED exc
               ELSE
                   GoOn("l246") /\ UNCHANGED exc
            /\ UNCHANGED <<td, ret, result>>
         [] Top.pc = "l246" ->
            \* 246-278
            /\ IF ~fit_made(pt, tdc_plot.heights) THEN
                   GoOn("l279") /\ UNCHANGED td
               ELSE
                   LET lines == partition_lines(hdata, cdata, pt)
                       p0 == lines[1]
                       p1 == lines[2]
                   IN  IF pre_slope_too_big(p0) THEN
                           /\ stack' = SetTop([Top EXCEPT !.pc = "return", !.fitted = TRUE,
                                                          !.returns = TRUE])
                           /\ UNCHANGED td
                       ELSE IF slopes_differ(p0, p1) THEN
                           LET td_height == touchdown_height(p0, p1)
                           IN  /\ td' = [td_has_occurred |-> TRUE, td_height |-> td_height,
                                         tdc_plot_td_height |-> td_height,
                                         pre_td_slope |-> slope_string(p0[1]),
                                         post_td_slope |-> slope_string(p1[1])]
                               /\ stack' = SetTop([Top EXCEPT !.pc = "l279", !.fitted = TRUE])
                       ELSE
                           /\ stack' = SetTop([Top EXCEPT !.pc = "l279", !.fitted = TRUE])
                           /\ UNCHANGED td
            /\ UNCHANGED <<exc, ret, result>>
         [] Top.pc = "l279" ->
            \* 279-285
            /\ IF range_exhausted(pt, tdc_plot.heights) THEN
                   /\ td' = [td EXCEPT !.tdc_plot_td_height = None, !.pre_td_slope = None,
                                       !.post_td_slope = None]
                   /\ stack' = SetTop([Top EXCEPT !.pc = "return", !.returns = TRUE])
               ELSE
                   /\ stack' = SetTop([Top EXCEPT !.pc = "return",
                                                  !.returns = td.td_has_occurred])
                   /\ UNCHANGED td
            /\ UNCHANGED <<exc, ret, result>>
         [] Top.pc = "return" ->
            /\ Return(Top.returns)
            /\ UNCHANGED <<td, exc>>
    /\ UNCHANGED <<hw, temp, plane_is_current, amplitude, counter, interrupted, hist>>

(***************************************************************************)
(* tdCAP: the position is read (176); line 178 then reads the local        *)
(* daq_config, which is assigned at line 184 only, and Python raises       *)
(* UnboundLocalError.  The sweep of 204-209 is never built and never run.  *)
(***************************************************************************)
tdCAP ==
    /\ Running("tdCAP")
    /\ CASE Top.pc = "l176" ->
            Call("l177", get_pos_frame) /\ UNCHANGED <<exc, ret, result>>
         [] Top.pc = "l177" ->
            /\ stack' = SetTop([Top EXCEPT !.pc = "l178", !.old_pos = ret])
            /\ UNCHANGED <<exc, ret, result>>
         [] Top.pc = "l178" ->
            Raise("UnboundLocalError")
    /\ UNCHANGED <<hw, conf, counter, interrupted, hist>>

(***************************************************************************)
(* Touchdown series: what the CAP channel reads along the sweep.           *)
(***************************************************************************)
positive(v) == IF v > 0 THEN v ELSE 0

\* flat up to sample `start`, slope `pre` from there, `post` more from sample `kink`
bent_series(len, start, pre, kink, post) ==
    [j \in 1..len |-> tdc_constants.initial_cap + pre * positive(j - 1 - start)
                      + post * positive(j - 1 - kink)]

\* flat, but for sample k, which is `jump` higher
spike_series(len, k, jump) ==
    [j \in 1..len |-> tdc_constants.initial_cap + (IF j - 1 = k THEN jump ELSE 0)]

\* the samples the plot holds: one for every planned height, or one more (the
\* sweep of microscope.py 204 has a point at each end of the range)
DataLengths == {PlannedSteps, PlannedSteps + 1}

BentSeries ==
    {bent_series(len, start, pre, kink, post) :
        len \in DataLengths, start \in {0, 11}, pre \in {0, 1, 2, -2}, kink \in {12, 13},
        post \in {0, 2, -2}}

SpikeSeries ==
    {spike_series(len, k, jump) :
        len \in DataLengths, k \in {0, 1, 2, 7, 15},
        jump \in {tdc_constants.max_delta_cap + 1, tdc_constants.max_delta_cap - 4}}

Prefactors == {3, 10}

planned_heights == [j \in 1..PlannedSteps |-> j - 1]

TDCPlots ==
    {TDCPlot(data, planned_heights, prefactor) :
        data \in BentSeries \cup SpikeSeries, prefactor \in Prefactors}

\* the touchdown loop calls check_for_td(tdc_plot, counter) at step pt, after
\* the sample of that step has been taken (the order of microscope.py 205-207)
call_check_for_td ==
    /\ stack = <<>>
    /\ \E tdc_plot \in TDCPlots, pt \in 0..PlannedSteps :
        /\ pt < Len(tdc_plot.data)
        /\ stack' = <<check_for_td_frame(tdc_plot)>>
        /\ counter' = pt
    /\ result' = "running"
    /\ UNCHANGED <<hw, conf, exc, ret, interrupted, hist>>

call_tdCAP == user_call(tdCAP_frame)

\* touchdowns: steps of the detector on any series, and tdCAP
TouchdownNext ==
    \/ call_check_for_td
    \/ call_tdCAP
    \/ check_for_td
    \/ tdCAP
    \/ get_pos
    \/ propagate

TouchdownSpec == Init /\ [][TouchdownNext]_vars

(***************************************************************************)
(* Single lines: scan_line, goto_start_of_next_line and control_ao_task    *)
(* called one at a time, with any line of a grid in the counter.  The      *)
(* grids may have more lines than the slow axis has room for.              *)
(***************************************************************************)
GridLines == 2..(MaxLines + 2)

\* a call with counter.count = line; the histories start anew
line_call(frame, line) ==
    /\ stack = <<>>
    /\ stack' = <<frame>>
    /\ counter' = line
    /\ result' = "running"
    /\ interrupted' = FALSE
    /\ ao_writes' = 0
    /\ events' = <<>>
    /\ UNCHANGED <<hw, conf, exc, ret>>

call_scan_line ==
    \E fast_ax \in {"x", "y"}, nlines \in GridLines, reverse \in BOOLEAN :
        \E line \in 0..(nlines - 1) :
            line_call(scan_line_frame(fast_ax, nlines, reverse), line)

call_goto_start_of_next_line ==
    \E fast_ax \in {"x", "y"}, nlines \in GridLines :
        \E line \in 0..(nlines - 1) :
            line_call(goto_start_of_next_line_frame(fast_ax, nlines), line)

\* scanner.control_ao_task(cmd): the caller stops or closes the output task
call_control_ao_task ==
    /\ stack = <<>>
    /\ \E cmd \in {"stop", "close"} :
        IF control_ao_task_raises(ao_task, cmd) THEN
            /\ result' = "DaqError"
            /\ UNCHANGED <<ao_task, ao_out>>
        ELSE
            /\ ao_task' = control_ao_task(ao_task, cmd)
            /\ ao_out' \in ao_out_after(ao_task, cmd)
            /\ result' = "returned"
    /\ UNCHANGED <<conf, goto_ao_task, get_pos_ai_task, ai_task, counter, stack, exc, ret,
                   interrupted, hist>>

LineNext ==
    \/ call_scan_line
    \/ call_goto_start_of_next_line
    \/ call_control_ao_task
    \/ scan_line
    \/ goto_start_of_next_line
    \/ get_pos
    \/ goto
    \/ propagate

LineSpec == Init /\ [][LineNext]_vars

(***************************************************************************)
(* Properties.                                                             *)
(***************************************************************************)
\* the smaller and the larger of the two limits the configuration gives for
\* axis i in the active temperature mode, whatever their order there
ConfiguredMin(i) ==
    LET pair == scanner_config.voltage_limits[temp][AXES[i]]
    IN  IF pair[1] <= pair[2] THEN pair[1] ELSE pair[2]

ConfiguredMax(i) ==
    LET pair == scanner_config.voltage_limits[temp][AXES[i]]
    IN  IF pair[1] <= pair[2] THEN pair[2] ELSE pair[1]

WithinLimits(pos) == \A i \in 1..3 : ConfiguredMin(i) <= pos[i] /\ pos[i] <= ConfiguredMax(i)

GotoFrames == {k \in 1..Len(stack) : stack[k].fn = "goto"}

\* C1: a goto (retract_first false or true) whose target has an axis value
\* outside the limits of the active temperature mode raises ValueError at its
\* limit check and writes nothing to the analog outputs: the call never gets
\* past the check, no output task exists, no write is counted and the outputs
\* hold what they held when the call was made.
C1_RejectedBeforeAnyWrite ==
    \A k \in GotoFrames :
        LET f == stack[k]
        IN  ~WithinLimits(f.new_pos) =>
                /\ f.pc \in {"l113", "l114"}
                /\ ~goto_ao_task
                /\ ao_writes = f.w0
                /\ ao_out = f.ao0

C1_RaisesOutOfRange ==
    (Running("goto") /\ Top.pc = "l114" /\ ~WithinLimits(Top.new_pos))
        => (exc' = "ValueError" /\ stack' = stack /\ ao_out' = ao_out
            /\ ao_writes' = ao_writes /\ goto_ao_task' = goto_ao_task)

C1_OutOfRangeGotoWritesNothing == []C1_RejectedBeforeAnyWrite /\ [][C1_RaisesOutOfRange]_vars

\* a goto with retract_first set and a z target above the limit has raised ValueError
C1_Witness ==
    /\ stack # <<>> /\ Top.fn = "goto" /\ Top.pc = "l114"
    /\ Top.retract_first
    /\ Top.new_pos[3] > ConfiguredMax(3)
    /\ exc = "ValueError"
    /\ ao_writes = 0

\* C2: goto accepts a target exactly when every axis value v satisfies
\* min <= v <= max, both limits included, min and max being the sorted
\* configured limits of the active mode; a rejected target is not clamped:
\* the call ends in ValueError with its target unchanged, and an accepted
\* target is the one the move is made to.
C2_LimitCheck ==
    (Running("goto") /\ Top.pc = "l114") =>
        IF WithinLimits(Top.new_pos)
        THEN /\ exc' = "none"
             /\ Len(stack') = Len(stack)
             /\ stack'[Len(stack)].pc \in {"l126", "l137"}
             /\ stack'[Len(stack)].new_pos = Top.new_pos
        ELSE /\ exc' = "ValueError"
             /\ stack' = stack

C2_MoveToTarget ==
    (Running("goto") /\ Top.pc = "l131" /\ ao_out' # ao_out) => ao_out' = Top.new_pos

C2_AcceptsExactlyWithinLimits == [][C2_LimitCheck /\ C2_MoveToTarget]_vars

\* a target on the lower limit of x and the upper limit of y has been accepted
\* and moved to, under limits the configuration gives in descending order
C2_Witness ==
    /\ stack # <<>> /\ Top.fn = "goto" /\ Top.pc = "l142"
    /\ scanner_config.voltage_limits[temp]["x"][1] > scanner_config.voltage_limits[temp]["x"][2]
    /\ Top.new_pos[1] = ConfiguredMin(1)
    /\ Top.new_pos[2] = ConfiguredMax(2)
    /\ ao_out = Top.new_pos
    /\ ao_out # Top.ao0

(***************************************************************************)
(* Properties of a scan.  `events` is the log of the running scan_plane    *)
(* call; each entry carries the counter's value when it was logged.        *)
(***************************************************************************)
IsPrefix(s, t) == Len(s) <= Len(t) /\ \A k \in 1..Len(s) : s[k] = t[k]

EventNames(evs) == [k \in 1..Len(evs) |-> evs[k].e]

\* the names in `names` logged while the counter was `line`, in order
LineEvents(line, names) ==
    EventNames(SelectSeq(events, LAMBDA ev : ev.line = line /\ ev.e \in names))

Count(names) == Len(SelectSeq(events, LAMBDA ev : ev.e \in names))

CountOnLine(line, names) == Len(LineEvents(line, names))

\* where the running iteration of the loop starts in the log
IterationStart ==
    IF \E k \in 1..Len(events) : events[k].e = "sweep_set"
    THEN CHOOSE k \in 1..Len(events) :
             /\ events[k].e = "sweep_set"
             /\ \A j \in (k + 1)..Len(events) : events[j].e # "sweep_set"
    ELSE 0

IterationEvents == EventNames(SubSeq(events, IterationStart + 1, Len(events)))

Occurs(name, evs) == \E k \in 1..Len(evs) : evs[k] = name

\* `first` occurs in evs before the first occurrence of `second`
Precedes(first, second, evs) ==
    \E k \in 1..Len(evs) :
        /\ evs[k] = first
        /\ \A j \in 1..k : evs[j] # second

ScanPlaneRuns == stack # <<>> /\ stack[1].fn = "scan_plane"

Lines == IF ScanPlaneRuns THEN 0..(stack[1].nlines - 1) ELSE {}

HardwareOrder ==
    <<"scan_line", "ai_start", "ao_start", "ai_wait_until_done", "ao_wait_until_done",
      "ai_stop", "ao_stop", "ao_close">>

HardwareNames == {HardwareOrder[k] : k \in 1..Len(HardwareOrder)}

\* C3: in every line iteration of the scan_plane loop the hardware events
\* happen in this order and no other: scan_line queues the line's samples on a
\* new output task without starting it, the input task is started, the output
\* task is started, input and output are waited on, the input task is stopped,
\* the output task is stopped and closed.  The output of a line is never
\* started before the input of that line.
C3_PerLineHardwareOrder ==
    /\ \A line \in Lines :
           /\ IsPrefix(LineEvents(line, HardwareNames), HardwareOrder)
           /\ CountOnLine(line, {"advance"}) > 0
                  => LineEvents(line, HardwareNames) = HardwareOrder
    /\ (events # <<>> /\ events[Len(events)].e = "scan_line") => ao_task.st = "loaded"
    /\ (events # <<>> /\ events[Len(events)].e = "ao_start") =>
           /\ ao_task.st = "running"
           /\ ai_task = "started"

\* the second line of a scan has gone through all its hardware steps
C3_Witness ==
    /\ ScanPlaneRuns
    /\ counter = 1
    /\ LineEvents(1, HardwareNames) = HardwareOrder
    /\ LineEvents(0, HardwareNames) = HardwareOrder

\* the interrupt handler of scan_plane is running or has run
HandlerRuns == ScanPlaneRuns /\ stack[1].irq # "no"

\* the interrupt was caught while the scan-line output task was open
InterruptedMidLine ==
    HandlerRuns /\ stack[1].irq \in {"created", "loaded", "running", "done", "stopped"}

\* C4: on a KeyboardInterrupt anywhere in the scan_plane loop the handler stops
\* and closes an open scan-line output task before it commands any motion,
\* then moves to old_pos, then restores the amplitudes: the handler's goto is
\* never under way while the scan-line output task is open, and the handler
\* never ends in its stop of the output task.
C4_HandlerClosesBeforeMotion ==
    HandlerRuns =>
        /\ (stack[1].pc = "l387" /\ Len(stack) > 1) => ~AoOpen(ao_task)
        /\ ~Occurs("handler_forward_to_closed", EventNames(events))
        /\ Occurs("handler_CAP_amplitude", EventNames(events))
               => Occurs("handler_goto_old_pos", EventNames(events))

\* C5: when scan_plane returns after handling an interrupt that arrived while
\* the scan-line output task was open, neither the scan-line output task nor
\* the scan input task is open and the outputs are at old_pos.
C5_InterruptLeavesNoTaskOpen ==
    (InterruptedMidLine /\ Len(stack) = 1 /\ stack[1].pc = "l391" /\ exc = "none") =>
        /\ ~AoOpen(ao_task)
        /\ ai_task = "none"
        /\ ~goto_ao_task
        /\ ~get_pos_ai_task
        /\ ao_out = stack[1].old_pos

\* C6: when a hardware error raised during a scan line or in goto has left the
\* call, no output task is open.
C6_ErrorLeavesNoOutputTaskOpen ==
    (stack = <<>> /\ result = "DaqError" /\ ~interrupted) =>
        /\ ~AoOpen(ao_task)
        /\ ~goto_ao_task

AoTasks == (IF AoOpen(ao_task) THEN 1 ELSE 0) + (IF goto_ao_task THEN 1 ELSE 0)

AiTasks == (IF ai_task # "none" THEN 1 ELSE 0) + (IF get_pos_ai_task THEN 1 ELSE 0)

\* C7: at any time at most one analog-output task and at most one analog-input
\* task exist; the goto output task is never created while the scan-line
\* output task is open.
C7_AtMostOneTaskOfEachKind == AoTasks <= 1 /\ AiTasks <= 1

\* C8 as stated: within a line iteration the counter is advanced after the
\* output task is stopped and closed and before the move to the next line's
\* start is issued.
C8_AdvanceBeforeNextLineMove ==
    \A name \in {"next_line_goto", "next_line_noop"} :
        Occurs(name, IterationEvents) => Precedes("advance", name, IterationEvents)

\* C8: within a line iteration the counter is advanced after the output task
\* is stopped and closed and after goto_start_of_next_line has returned: the
\* order is stop, close, move to the start of the next line, advance.
C8_AdvanceAfterNextLineMove ==
    /\ Occurs("advance", IterationEvents) =>
           /\ Precedes("ao_stop", "ao_close", IterationEvents)
           /\ Precedes("ao_close", "next_line_done", IterationEvents)
           /\ Precedes("next_line_done", "advance", IterationEvents)
    /\ \A name \in {"next_line_goto", "next_line_noop"} :
           Occurs(name, IterationEvents) =>
               /\ Precedes("ao_close", name, IterationEvents)
               /\ Precedes(name, "advance", IterationEvents)
                      \/ ~Occurs("advance", IterationEvents)

\* the first line has moved to the start of the second and then advanced the counter
C8_Witness ==
    /\ ScanPlaneRuns
    /\ counter = 1
    /\ Occurs("next_line_goto", IterationEvents)
    /\ IterationEvents[Len(IterationEvents)] = "advance"
    /\ ao_out = grid_point(scan_grids(temp, stack[1].fast_ax, stack[1].nlines), 2, 1)

\* the loop of the running scan_plane has run to its end without an interrupt
ScanCompleted ==
    /\ ScanPlaneRuns
    /\ stack[1].pc \in {"then", "l390", "l391"}
    /\ stack[1].irq = "no"

\* C9: in a scan of L lines that runs to completion without interrupt, advance
\* is executed L times and the counter goes from 0 to L, scan_line runs once
\* for each line index 0..L-1, and goto_start_of_next_line makes no move once,
\* on line L-1, and makes a move on each of the other L-1 lines.
C9_AdvancesAndNextLineMoves ==
    ScanCompleted =>
        LET L == stack[1].nlines
        IN  /\ counter = L
            /\ Count({"advance"}) = L
            /\ \A line \in 0..(L - 1) :
                   /\ CountOnLine(line, {"scan_line"}) = 1
                   /\ CountOnLine(line, {"advance"}) = 1
                   /\ CountOnLine(line, {"next_line_noop"}) = (IF line = L - 1 THEN 1 ELSE 0)
                   /\ CountOnLine(line, {"next_line_goto"}) = (IF line = L - 1 THEN 0 ELSE 1)
            /\ Count({"scan_line"}) = L
            /\ Count({"next_line_noop"}) = 1
            /\ Count({"next_line_goto"}) = L - 1

\* a scan of MaxLines lines has completed and is about to return
C9_Witness ==
    /\ ScanCompleted
    /\ stack[1].nlines = MaxLines
    /\ stack[1].pc = "l391"
    /\ Count({"advance"}) = MaxLines

\* the steps of a line that come before its advance, microscope.py 345-361
StepsBeforeAdvance ==
    <<"scan_line", "ai_start", "ao_start", "voltage", "ai_wait_until_done",
      "ao_wait_until_done", "ai_stop", "ao_stop", "ao_close", "next_line_done">>

StepNames == {StepsBeforeAdvance[k] : k \in 1..Len(StepsBeforeAdvance)}

LineCompleted(line) == LineEvents(line, StepNames) = StepsBeforeAdvance

CompletedLines == Cardinality({line \in Lines : LineCompleted(line)})

C10_CounterWithinCompletedLines ==
    /\ counter = Count({"advance"})
    /\ counter <= CompletedLines
    /\ \A line \in Lines :
           CountOnLine(line, {"advance"}) > 0 =>
               /\ LineCompleted(line)
               /\ CountOnLine(line, {"advance"}) = 1
    /\ \A k \in 1..Len(events) :
           events[k].e = "advance" =>
               IsPrefix(StepsBeforeAdvance,
                        EventNames(SelectSeq(SubSeq(events, 1, k),
                                             LAMBDA ev : ev.line = events[k].line
                                                         /\ ev.e \in StepNames)))

C10_CounterStep ==
    counter' # counter =>
        \/ /\ counter' = counter + 1
           /\ events' = Append(events, [e |-> "advance", line |-> counter])
        \/ counter' = 0 /\ events' = <<>>

\* C10: the counter goes up by one per advance; the advance of a line is
\* executed only after every earlier step of that line has completed, so a
\* line that raises or is interrupted does not advance the counter and the
\* counter never exceeds the number of completed lines.
C10_AdvanceOnlyAfterCompletedLine ==
    []C10_CounterWithinCompletedLines /\ [][C10_CounterStep]_vars

\* the second line was interrupted while its output ran: the counter still counts one line
C10_Witness ==
    /\ HandlerRuns
    /\ stack[1].irq = "running"
    /\ stack[1].pc = "l390"
    /\ counter = 1
    /\ Count({"scan_line"}) = 2
    /\ CompletedLines = 1

(***************************************************************************)
(* Properties of goto with retract_first, retract and the single-axis      *)
(* moves.                                                                  *)
(***************************************************************************)
\* the retract voltage the configuration gives for the active temperature mode
ConfiguredRetract == scanner_config.voltage_retract[temp]

\* the running top-level call is a goto with retract_first and a target within the limits
RetractFirstCall ==
    /\ stack # <<>>
    /\ stack[1].fn = "goto"
    /\ stack[1].retract_first
    /\ WithinLimits(stack[1].new_pos)

\* the moves of the maneuver, each made by a goto below the top-level call
C11_MovesInOrder ==
    RetractFirstCall =>
        LET target == stack[1].new_pos
        IN  /\ (stack[1].pc = "l138" /\ Len(stack) >= 3 /\ stack[3].fn = "goto") =>
                   stack[3].new_pos = <<stack[3].ao0[1], stack[3].ao0[2], ConfiguredRetract>>
            /\ (stack[1].pc = "l140" /\ Len(stack) >= 2 /\ stack[2].fn = "goto") =>
                   stack[2].new_pos = <<target[1], target[2], ConfiguredRetract>>
            /\ (stack[1].pc = "l142" /\ Len(stack) >= 2 /\ stack[2].fn = "goto") =>
                   stack[2].new_pos = target

\* the call ends, other than by a failure of the hardware, after three moves at the target
C11_EndsAtTarget ==
    (RetractFirstCall /\ stack' = <<>> /\ result' # "DaqError") =>
        /\ result' = "returned"
        /\ ao_writes' = 3
        /\ ao_out' = stack[1].new_pos

\* C11: goto(target, retract_first=True) with a target within the limits and
\* any speed makes three moves in order: z to the retract voltage of the
\* active mode with x, y held, then x and y to the target's with z held, then
\* z to the target's; the call ends with the outputs at the target.
C11_RetractFirstThreeMoves == []C11_MovesInOrder /\ [][C11_EndsAtTarget]_vars

\* the lateral phase is made, and made at the retract voltage
C12_LateralPhaseAtRetractHeight ==
    /\ (RetractFirstCall /\ (ao_out'[1] # ao_out[1] \/ ao_out'[2] # ao_out[2])) =>
           /\ ao_out[3] = ConfiguredRetract
           /\ ao_out'[3] = ConfiguredRetract
    /\ RetractFirstCall =>
           /\ ConfiguredMin(3) <= ao_out'[3]
           /\ ao_out'[3] <= ConfiguredMax(3)
    /\ (RetractFirstCall /\ stack' = <<>> /\ result' # "DaqError") =>
           /\ ao_out'[1] = stack[1].new_pos[1]
           /\ ao_out'[2] = stack[1].new_pos[2]

RetractCall == stack # <<>> /\ stack[1].fn = "retract"

C13_OneMoveToRetractVoltage ==
    RetractCall =>
        /\ ao_writes <= 1
        /\ (Len(stack) >= 2 /\ stack[2].fn = "goto") =>
               /\ stack[2].new_pos =
                      <<stack[2].ao0[1], stack[2].ao0[2], ConfiguredRetract>>
               /\ ~stack[2].retract_first
               /\ ao_writes = (IF stack[2].pc \in {"l142", "l147"} THEN 1 ELSE 0)
        /\ (Len(stack) = 1 /\ stack[1].pc = "l165" /\ exc = "none") =>
               /\ ao_writes = 1
               /\ ao_out[3] = ConfiguredRetract

C13_HoldsXY == RetractCall => (ao_out'[1] = ao_out[1] /\ ao_out'[2] = ao_out[2])

\* C13: retract, with the default or a supplied speed, makes exactly one move,
\* to [current x, current y, retract voltage of the active mode] with x and y
\* read in the call; the x and y outputs are the same before and after and
\* only z changes.
C13_RetractMovesOnlyZ == []C13_OneMoveToRetractVoltage /\ [][C13_HoldsXY]_vars

\* at low temperature a retract at a supplied speed has moved z to the retract
\* voltage from elsewhere, with x away from the origin
C13_Witness ==
    /\ RetractCall
    /\ Len(stack) = 1 /\ stack[1].pc = "l165" /\ exc = "none"
    /\ stack[1].speed.kind = "str"
    /\ temp = "LT"
    /\ ao_out[1] # 0
    /\ ao_out[3] = ConfiguredRetract
    /\ ret[3] = ConfiguredRetract
    /\ ao_writes = 1

\* the running top-level call is a single-axis set
AxisCall == stack # <<>> /\ stack[1].fn = "_goto_axis"

OtherAxes(axis) == (1..3) \ {axis}

C14_DelegatesToGoto ==
    AxisCall =>
        LET axis == stack[1].axis
        IN  /\ ao_writes <= 1
            /\ (Len(stack) >= 2 /\ stack[2].fn = "goto") =>
                   /\ stack[2].new_pos[axis] = stack[1].value
                   /\ \A j \in OtherAxes(axis) :
                          /\ stack[2].new_pos[j] = stack[2].ao0[j]
                          /\ ao_out[j] = stack[2].ao0[j]
                   /\ ~stack[2].retract_first
                   /\ stack[2].pc \notin {"l113", "l114"} => WithinLimits(stack[2].new_pos)
            /\ (Len(stack) = 1 /\ stack[1].pc = "return" /\ exc = "none") =>
                   /\ ao_writes = 1
                   /\ ao_out[axis] = stack[1].value

C14_OnlyOwnAxisByGoto ==
    AxisCall =>
        /\ \A j \in OtherAxes(stack[1].axis) : ao_out'[j] = ao_out[j]
        /\ ao_out' # ao_out => (Top.fn = "goto" /\ Top.pc = "l131" /\ Len(stack) = 2)

\* C14: each single-axis set makes its move by a call of goto with the
\* requested value on its own axis and the other two axes as read from the
\* hardware in the call, so the move passes goto's limit check and ramp, and
\* the outputs of the other two axes are unchanged by the call.
C14_AxisSetDelegatesToGoto == []C14_DelegatesToGoto /\ [][C14_OnlyOwnAxisByGoto]_vars

\* y was set to its upper limit while x and z stayed away from the origin
C14_Witness ==
    /\ AxisCall
    /\ Len(stack) = 1 /\ stack[1].pc = "return" /\ exc = "none"
    /\ stack[1].axis = 2
    /\ stack[1].value = ConfiguredMax(2)
    /\ ao_out[2] = ConfiguredMax(2)
    /\ ao_out[1] # 0 /\ ao_out[3] # 0
    /\ ao_writes = 1

(***************************************************************************)
(* Properties of the ramps.                                                *)
(***************************************************************************)
\* goto is about to make, or has made and is about to write, its ramp
MakesRamp == stack # <<>> /\ Top.fn = "goto" /\ Top.pc \in {"l126", "l131"} /\ exc = "none"

RampSpeed == IF Top.speed.kind = "none" THEN scanner_config.speed ELSE Top.speed.v

\* the largest displacement over the three axes
MaxDisplacement(pos0, pos1) ==
    LET d == {IF pos1[i] >= pos0[i] THEN pos1[i] - pos0[i] ELSE pos0[i] - pos1[i] : i \in 1..3}
    IN  CHOOSE m \in d : \A n \in d : n <= m

\* floor(max displacement / speed * sample rate) + 2
SampleCount(pos0, pos1, speed) ==
    ((MaxDisplacement(pos0, pos1) * daq_config.rate) \div speed) + 2

RampSpeeds == 1..(3 * scanner_config.speed)

\* C15: make_ramp(pos0, pos1, speed) returns three rows of the same length
\* N = floor(max displacement / speed * rate) + 2, at least 2 also for no
\* travel; each row starts at pos0[i] and ends at pos1[i] exactly; for a fixed
\* displacement N does not decrease as the speed decreases.
C15_RampShape ==
    MakesRamp =>
        LET pos0 == Top.old_pos
            pos1 == Top.new_pos
            ramp == make_ramp(pos0, pos1, RampSpeed)
        IN  /\ ramp.npts = SampleCount(pos0, pos1, RampSpeed)
            /\ ramp.npts >= 2
            /\ \A i \in 1..3 :
                   /\ Len(ramp.num[i]) = ramp.npts
                   /\ ramp.num[i][1] = pos0[i] * ramp.den
                   /\ ramp.num[i][ramp.npts] = pos1[i] * ramp.den
            /\ \A slow, fast \in RampSpeeds :
                   slow <= fast =>
                       make_ramp(pos0, pos1, slow).npts >= make_ramp(pos0, pos1, fast).npts

\* a ramp over two volts at the default speed: four samples, two of them on the way
C15_Witness ==
    /\ MakesRamp
    /\ Top.pc = "l131"
    /\ Top.speed.kind = "none"
    /\ MaxDisplacement(Top.old_pos, Top.new_pos) = 2
    /\ make_ramp(Top.old_pos, Top.new_pos, RampSpeed).npts = 4

\* C16: when the speed asked for exceeds the configured maximum, the ramp is
\* made with the maximum speed: it has the sample count of a ramp at the
\* maximum; the move is not rejected.
C16_SpeedClampedToMaximum ==
    (MakesRamp /\ RampSpeed > scanner_config.speed) =>
        make_ramp(Top.old_pos, Top.new_pos, RampSpeed).npts =
            SampleCount(Top.old_pos, Top.new_pos, scanner_config.speed)

\* sample k of axis i of the ramp lies within the limits of the axis
SampleWithinLimits(ramp, i, k) ==
    /\ ConfiguredMin(i) * ramp.den <= ramp.num[i][k]
    /\ ramp.num[i][k] <= ConfiguredMax(i) * ramp.den

\* C17: from a position within the limits, whatever goto, retract and
\* single-axis moves are made, accepted or rejected, every sample goto writes
\* (the start of the ramp, the samples on the way, the end) is within the
\* limits of its axis for the active mode, and so are the outputs at all times.
C17_SamplesWithinLimits ==
    /\ WithinLimits(ao_out)
    /\ (stack # <<>> /\ Top.fn = "goto" /\ Top.pc = "l131") =>
           LET ramp == make_ramp(Top.old_pos, Top.new_pos, RampSpeed)
           IN  \A i \in 1..3 : \A k \in 1..ramp.npts : SampleWithinLimits(ramp, i, k)

\* a ramp with samples on the way, from one corner of the range to another,
\* is about to be written by a retract
C17_Witness ==
    /\ stack # <<>> /\ Top.fn = "goto" /\ Top.pc = "l131" /\ exc = "none"
    /\ stack[1].fn = "retract"
    /\ make_ramp(Top.old_pos, Top.new_pos, RampSpeed).npts >= 3
    /\ ao_out[1] = ConfiguredMax(1)
    /\ ao_out[2] = ConfiguredMin(2)

(***************************************************************************)
(* Touchdown detection.                                                    *)
(***************************************************************************)
\* check_for_td is on the stack, past the statements that start at `pcs`
TdPast(pcs) == stack # <<>> /\ Top.fn = "check_for_td" /\ Top.pc \notin pcs

\* the samples the step looks at: those up to the step index
StepSamples == Slice(Top.tdc_plot.data, 0, Top.pt + 1)

\* the last two samples of the step (it has at least two)
LastTwo == {StepSamples[Len(StepSamples)], StepSamples[Len(StepSamples) - 1]}

\* a sample is further from the initial value than the maximum delta
Drifted(c) ==
    c - tdc_constants.initial_cap > tdc_constants.max_delta_cap
    \/ tdc_constants.initial_cap - c > tdc_constants.max_delta_cap

\* a sample, converted to the lock-in voltage, is beyond the saturation bound
Saturated(c) ==
    c > rail_voltage * Top.tdc_plot.prefactor \/ -c > rail_voltage * Top.tdc_plot.prefactor

Unsafe(c) == Drifted(c) \/ Saturated(c)

\* the step is over and returns True without a detection and without a fit
AbortUnsafe ==
    /\ Top.pc = "return"
    /\ Top.returns
    /\ ~td.td_has_occurred
    /\ ~Top.fitted

\* C18: at every check_for_td step with at least two samples, if one of the
\* last two samples is beyond the maximum delta or the saturation bound, the
\* step ends with ABORT_UNSAFE: it goes from the safety gate straight to the
\* return of True, with td_has_occurred false and without a line fit.
C18_SafetyGateFromTwoSamples ==
    (TdPast({"l223", "l237"}) /\ Len(StepSamples) >= 2 /\ \E c \in LastTwo : Unsafe(c))
        => AbortUnsafe

\* C19: a touchdown measurement steps the probe until the detector reports a
\* terminal outcome and is stopped by it: tdCAP ends only from the statements
\* behind its stepping loop (216-217), once the loop has been stopped, and
\* never by an error raised before the loop has evaluated the detector.
C19_MeasurementEndsAfterLoopStopped ==
    (Len(stack) = 1 /\ stack[1].fn = "tdCAP" /\ stack' = <<>>)
        => (exc = "none" /\ stack[1].pc = "l217")

C19_TerminalOutcomeStopsLoop == [][C19_MeasurementEndsAfterLoopStopped]_vars

\* the series has one slope over all its samples
NoSlopeChange(data) ==
    \A j \in 2..(Len(data) - 1) : data[j + 1] - data[j] = data[j] - data[j - 1]

\* check_for_td is on the stack with a series of one slope, all of whose
\* samples are within the safety bounds
FlatStep ==
    /\ TdPast({})
    /\ NoSlopeChange(Top.tdc_plot.data)
    /\ \A j \in 1..Len(Top.tdc_plot.data) : ~Unsafe(Top.tdc_plot.data[j])

RangeExhausted ==
    /\ Top.returns
    /\ td.tdc_plot_td_height = None
    /\ td.pre_td_slope = None
    /\ td.post_td_slope = None

FitStep == TdPast({"l223", "l237", "l246"}) /\ Top.fitted

StepHeights == Slice(Top.tdc_plot.heights, 0, Top.pt + 1)

\* the lines before and behind the selected partition: <<slope, intercept>>
PreLine == partition_lines(StepHeights, StepSamples, Top.pt)[1]

PostLine == partition_lines(StepHeights, StepSamples, Top.pt)[2]

\* slope_pre - slope_post over the positive denominator SlopeGapDen
SlopeGapNum == PreLine[1][1] * PostLine[1][2] - PostLine[1][1] * PreLine[1][2]

SlopeGapDen == PreLine[1][2] * PostLine[1][2]

\* intercept_post - intercept_pre over the positive denominator InterceptGapDen
InterceptGapNum == PostLine[2][1] * PreLine[2][2] - PreLine[2][1] * PostLine[2][2]

InterceptGapDen == PostLine[2][2] * PreLine[2][2]

Magnitude(v) == IF v < 0 THEN 0 - v ELSE v

PreSlopeWithinMaximum ==
    Magnitude(PreLine[1][1]) <= tdc_constants.max_slope * PreLine[1][2]

SlopeGapExceedsThreshold ==
    Magnitude(SlopeGapNum) > tdc_constants.max_slope * SlopeGapDen

\* height * (slope_pre - slope_post) = intercept_post - intercept_pre
HeightIsIntersection(height) ==
    height[1] * SlopeGapNum * InterceptGapDen = InterceptGapNum * height[2] * SlopeGapDen

\* C21: in a step where the search ran and the slope before the partition is
\* within the maximum, a touchdown is reported (td_has_occurred, and True is
\* returned) exactly when |slope_pre - slope_post| exceeds max_slope; then
\* slope_pre - slope_post is not zero, td_height is
\* (intercept_post - intercept_pre) / (slope_pre - slope_post), the plot holds
\* the same height and the two slopes.
C21_DetectionDecision ==
    (FitStep /\ PreSlopeWithinMaximum) =>
        /\ td.td_has_occurred <=> SlopeGapExceedsThreshold
        /\ Top.pc = "return" => (Top.returns <=> SlopeGapExceedsThreshold)
        /\ td.td_has_occurred =>
              /\ SlopeGapNum # 0
              /\ td.td_height # None
              /\ td.td_height[2] > 0
              /\ HeightIsIntersection(td.td_height)
              /\ td.tdc_plot_td_height = td.td_height
              /\ td.pre_td_slope = slope_string(PreLine[1])
              /\ td.post_td_slope = slope_string(PostLine[1])

\* a step is about to return a touchdown at a height between two samples
C21_Witness ==
    /\ FitStep
    /\ PreSlopeWithinMaximum
    /\ Top.pc = "return"
    /\ Top.returns
    /\ td.td_has_occurred
    /\ td.td_height[2] > 1

\* C22: in a step where the search ran, if the magnitude of the slope before
\* the selected partition exceeds max_slope, the step ends at once with True:
\* td_has_occurred stays false and td_height None, also when the two slopes
\* differ by more than max_slope.
C22_PreSlopeAbort ==
    (FitStep /\ ~PreSlopeWithinMaximum) =>
        /\ Top.pc = "return"
        /\ Top.returns
        /\ ~td.td_has_occurred
        /\ td.td_height = None

\* such a step with a negative slope before the partition, the slope behind
\* it differing by more than max_slope
C22_Witness ==
    /\ FitStep
    /\ ~PreSlopeWithinMaximum
    /\ PreLine[1][1] < 0
    /\ SlopeGapExceedsThreshold
    /\ Top.pc = "return"
    /\ Top.returns

\* the step index is in the range of the search: beyond N_window + 10 and
\* below the planned number of samples
InSearchRange ==
    Top.pt > tdc_constants.N_window + 10 /\ Top.pt < Len(Top.tdc_plot.heights)

\* the safety gate ended the step: it is made from step 2 on and one of the
\* last two samples is beyond a bound
StoppedAtGate == Top.pt > 1 /\ \E c \in LastTwo : Unsafe(c)

\* C23 (as stated): the search of a step is executed exactly when the step
\* index pt satisfies pt > N_window + 10 and pt is below the planned number
\* of samples; in every other step no fit is made and no touchdown reported.
C23_SearchExactlyInRange ==
    TdPast({"l223", "l237", "l246"}) =>
        /\ Top.fitted <=> InSearchRange
        /\ ~Top.fitted => ~td.td_has_occurred

\* C23 (amended): the search of a step is executed exactly when the safety
\* gate has not ended the step and pt > N_window + 10 and pt is below the
\* planned number of samples; in every other step no fit is made and no
\* touchdown is reported.
C23_SearchInRangeBehindGate ==
    TdPast({"l223", "l237", "l246"}) =>
        /\ Top.fitted <=> (InSearchRange /\ ~StoppedAtGate)
        /\ ~Top.fitted => ~td.td_has_occurred

\* a step in the range of the search that the safety gate ended without a fit
C23_Witness ==
    /\ TdPast({"l223", "l237", "l246"})
    /\ InSearchRange
    /\ StoppedAtGate
    /\ ~Top.fitted
    /\ Top.pc = "return"

\* the partitions the search of the step examines
Candidates ==
    (Top.pt - tdc_constants.N_window + tdc_constants.N_fit_min)
        .. (Top.pt - tdc_constants.N_fit_min - 1)

\* the partition the search of the step selects
Selected == best_partition(StepHeights, StepSamples, Top.pt)

\* the residual of the line through samples lo..hi of the step
SegmentResidual(lo, hi) ==
    fit_line(SubSeq(StepHeights, lo + 1, hi + 1), SubSeq(StepSamples, lo + 1, hi + 1))[2]

\* the residual of partition i as numerator and denominator: the left segment
\* is [pt - N_window, i], the right one [i, pt]
ResidualNum(i) ==
    LET left == SegmentResidual(Top.pt - tdc_constants.N_window, i)
        right == SegmentResidual(i, Top.pt)
    IN  left[1] * right[2] + right[1] * left[2]

ResidualDen(i) ==
    SegmentResidual(Top.pt - tdc_constants.N_window, i)[2] * SegmentResidual(i, Top.pt)[2]

ResidualSmaller(i, k) == ResidualNum(i) * ResidualDen(k) < ResidualNum(k) * ResidualDen(i)

\* C24: the search of a step examines the partitions i with
\* pt - N_window + N_fit_min <= i < pt - N_fit_min, left segment
\* [pt - N_window, i], right segment [i, pt]; the one it selects is among
\* them, no partition has a smaller sum of the two residuals, and every
\* partition of a lower index has a larger one.
C24_SelectedPartition ==
    FitStep =>
        /\ Selected \in Candidates
        /\ \A i \in Candidates : ~ResidualSmaller(i, Selected)
        /\ \A i \in Candidates : i < Selected => ResidualSmaller(Selected, i)

\* a step where the partitions have the same residual and the first is selected
C24_Witness ==
    /\ FitStep
    /\ Cardinality(Candidates) > 1
    /\ \A i \in Candidates : ~ResidualSmaller(Selected, i)
    /\ \A i \in Candidates : Selected <= i

(***************************************************************************)
(* Single lines.                                                           *)
(***************************************************************************)
\* the grids the running call was given
CallGrids == scan_grids(temp, stack[1].fast_ax, stack[1].nlines)

\* sample k (from 1) of the row of line `line` (from 0), as <<x, y, z>>
RowSample(line, k) ==
    <<CallGrids["x"][line + 1][k], CallGrids["y"][line + 1][k], CallGrids["z"][line + 1][k]>>

\* scan_line queues its samples: the step from line 180 to the return
QueuesLine == Running("scan_line") /\ Top.pc = "l180" /\ Len(stack') < Len(stack)

C25_QueuesRowOfCounter ==
    QueuesLine =>
        /\ counter' = counter
        /\ ao_task'.st = "loaded"
        /\ Len(ao_task'.out) = PtsPerLine
        /\ \A k \in 1..PtsPerLine :
              ao_task'.out[k] = RowSample(counter, IF Top.reverse THEN PtsPerLine + 1 - k ELSE k)
        /\ ao_out' = ao_out
        /\ exc' = "none"

C25_CounterOnlyRead ==
    (stack # <<>> /\ stack[1].fn = "scan_line") => counter' = counter

\* C25: scan_line reads the line index from the counter and never changes it;
\* it queues, for the three axes, the row of that line of the grid, in
\* reversed sample order exactly when reverse is set, as many samples per
\* channel as the row is long, and returns with the output task loaded and
\* not started (the outputs have not moved).
C25_ScanLineQueuesRow == [][C25_QueuesRowOfCounter /\ C25_CounterOnlyRead]_vars

\* scan_line has returned from a call with reverse set for the second line:
\* the task holds the row backwards
C25_Witness ==
    /\ stack = <<>>
    /\ result = "returned"
    /\ counter = 1
    /\ ao_task.st = "loaded"
    /\ Len(events) = 1
    /\ events[1].e = "scan_line"
    /\ \E fast_ax \in {"x", "y"} :
          /\ ao_task.out = line_samples(scan_grids(temp, fast_ax, 2), 1, TRUE)
          /\ ao_task.out # line_samples(scan_grids(temp, fast_ax, 2), 1, FALSE)

\* goto_start_of_next_line looks up the next line: its step at lines 203-206
LooksUpNextLine == Running("goto_start_of_next_line") /\ Top.pc = "l203"

NextLineExists == counter + 1 < stack[1].nlines

C26_MovesToNextLineOrNot ==
    LooksUpNextLine =>
        IF NextLineExists THEN
            /\ Len(stack') = Len(stack) + 1
            /\ stack'[Len(stack')].fn = "goto"
            /\ stack'[Len(stack')].new_pos = RowSample(counter + 1, 1)
            /\ stack'[Len(stack')].quiet
            /\ ~stack'[Len(stack')].retract_first
        ELSE
            /\ Len(stack') = Len(stack)
            /\ stack'[Len(stack')].pc = "l209"
            /\ exc' = "none"
            /\ ao_out' = ao_out
            /\ ao_writes' = ao_writes

\* behind the lookup nothing else is called: the function returns
C26_OneMoveAtMost ==
    (Running("goto_start_of_next_line") /\ Top.pc = "l209") =>
        (Len(stack') < Len(stack) /\ exc' = "none" /\ ao_writes <= 1)

\* an error of the move leaves the function as it came
C26_ErrorReported ==
    (stack # <<>> /\ Top.fn = "goto_start_of_next_line" /\ exc # "none") =>
        (Len(stack') < Len(stack) /\ (Len(stack) = 1 => result' = exc))

C26_CounterOnlyRead ==
    (stack # <<>> /\ stack[1].fn = "goto_start_of_next_line") => counter' = counter

\* C26: goto_start_of_next_line with the counter at line n: if line n + 1 is
\* in the grid it calls goto once, quietly, with the first sample of line
\* n + 1 on the three axes; if n is the last line it moves nothing and raises
\* nothing; the counter is never changed; an error of the move (a target out
\* of range) ends the call as that error.
C26_NextLineMove ==
    [][C26_MovesToNextLineOrNot /\ C26_OneMoveAtMost /\ C26_ErrorReported
       /\ C26_CounterOnlyRead]_vars

\* the call has ended with the ValueError of a move to a line out of range
C26_Witness ==
    /\ stack = <<>>
    /\ result = "ValueError"
    /\ Len(events) = 1
    /\ events[1].e = "next_line_goto"
    /\ ao_writes = 0

(***************************************************************************)
(* The output task during scans.                                           *)
(***************************************************************************)
\* scan_plane is about to call control_ao_task: an action of the loop
\* (349, 353, 355, 356) or the interrupt handler (384, 385)
CallsControlAoTask ==
    /\ Running("scan_plane")
    /\ \/ Top.pc \in {"l384", "l385"}
       \/ /\ Top.pc = "each"
          /\ loop_actions[Top.a] \in {"ao_start", "ao_wait_until_done", "ao_stop", "ao_close"}

\* C27: in every run of scan_plane, interrupted or not, control_ao_task never
\* forwards a command to an output task that has been closed, and it forwards
\* every command once a scan-line output task has been created.
C27_NoCommandToClosedTask ==
    CallsControlAoTask =>
        /\ ao_task.st # "closed"
        /\ control_ao_task_forwards(ao_task) <=> ao_task.st # "none"

(***************************************************************************)
(* The plane flag.                                                         *)
(***************************************************************************)
\* scan_plane is the running call and the flag is false
ScanWithoutPlane == stack # <<>> /\ stack[1].fn = "scan_plane" /\ ~plane_is_current

\* such a call reads no position, moves nothing, leaves the lock-ins and the
\* DAQ tasks alone, and ends by an error
C29_NothingDoneWithoutPlane ==
    ScanWithoutPlane =>
        /\ UNCHANGED <<ao_out, goto_ao_task, get_pos_ai_task, ao_task, ai_task>>
        /\ amplitude' = amplitude
        /\ ao_writes' = ao_writes
        /\ Len(stack') <= 1
        /\ stack' # <<>> => (stack'[1].pc = "l263" /\ exc' # "none")
        /\ stack' = <<>> => result' \in {"RuntimeError", "KeyboardInterrupt"}

\* the flag is set only between the calls, by none of them
C29_NoOperationSetsFlag ==
    (~plane_is_current /\ plane_is_current') => (stack = <<>> /\ stack' = <<>>)

\* C29: the flag plane_is_current is false after the construction of the
\* scanner and no operation of the scanner or the microscope sets it; while
\* it is false scan_plane raises an error and reads no position, moves
\* nothing, changes no lock-in and creates no DAQ task.
C29_ScanNeedsCurrentPlane ==
    ~plane_is_current /\ [][C29_NothingDoneWithoutPlane /\ C29_NoOperationSetsFlag]_vars

\* a scan_plane call has ended by the RuntimeError of the flag
C29_Witness ==
    /\ stack = <<>>
    /\ result = "RuntimeError"
    /\ ~plane_is_current
    /\ ai_task = "none"
    /\ ao_task = NoTask

(***************************************************************************)
(* The end of a scan.                                                      *)
(***************************************************************************)
CompletionOrder == <<"clear_instances", "goto_old_pos", "CAP_amplitude", "SUSC_amplitude">>

CompletionNames == {CompletionOrder[k] : k \in 1..Len(CompletionOrder)}

\* the names of the events logged behind the last advance
AfterLastAdvance ==
    LET advances == {k \in 1..Len(events) : events[k].e = "advance"}
        last == CHOOSE k \in advances : \A j \in advances : j <= k
    IN  EventNames(SubSeq(events, last + 1, Len(events)))

\* the loop has completed without interrupt: the completion actions run once,
\* behind the last advance, in the order of .then(...)
C30_CompletionActionsInOrder ==
    ScanCompleted =>
        /\ Count({"advance"}) = stack[1].nlines
        /\ IsPrefix(SelectSeq(AfterLastAdvance, LAMBDA e : e # "hardware_error"),
                    CompletionOrder)
        /\ \A k \in 1..Len(events) : events[k].e \in CompletionNames => events[k].line = counter
        /\ stack[1].pc \in {"l390", "l391"} =>
              (AfterLastAdvance = CompletionOrder /\ Count(CompletionNames) = Len(CompletionOrder))

\* the moves a scan commands
MotionNames == {"sweep_set", "next_line_goto", "goto_old_pos", "handler_goto_old_pos"}

LastMotionToOldPos ==
    LET moves == SelectSeq(events, LAMBDA ev : ev.e \in MotionNames)
    IN  moves # <<>> /\ moves[Len(moves)].e \in {"goto_old_pos", "handler_goto_old_pos"}

\* scan_plane ends on one of the two paths it handles: the loop had completed,
\* or an interrupt had been caught; no hardware fault happened on the way
EndsOnHandledPath ==
    /\ Len(stack) = 1 /\ stack[1].fn = "scan_plane" /\ stack' = <<>>
    /\ stack[1].irq # "no" \/ stack[1].pc \in {"then", "l390", "l391"}
    /\ Count({"hardware_error"}) = 0

\* then the last move was to old_pos and daq_ai has been removed (390)
C30_EndsAtOldPos ==
    EndsOnHandledPath =>
        /\ exc = "none"
        /\ stack[1].pc = "l391"
        /\ LastMotionToOldPos

\* C30: when the loop completes all lines without interrupt the completion
\* actions run once, after the last advance, in this order: clear the input
\* instances, move to old_pos, set the two lock-in amplitudes; on both exits
\* scan_plane handles, normal completion and user interrupt, the last move
\* commanded is the one to old_pos and daq_ai is removed before scan_plane
\* is left.
C30_CompletionAndExit == []C30_CompletionActionsInOrder /\ [][C30_EndsAtOldPos]_vars

C30_NormalCompletion == []C30_CompletionActionsInOrder

(***************************************************************************)
(* The outcome of a step of the detector.                                  *)
(***************************************************************************)
\* check_for_td is about to return
StepOver == TdPast({"l223", "l237", "l246", "l279"})

\* ABORT_UNSAFE: the safety gate ended the step, or the slope check did
OutcomeAbortUnsafe ==
    \/ ~Top.fitted /\ StoppedAtGate
    \/ Top.fitted /\ ~PreSlopeWithinMaximum

\* DETECTED: the fits of this step were made and their slopes differ enough
OutcomeDetected == Top.fitted /\ PreSlopeWithinMaximum /\ SlopeGapExceedsThreshold

\* RANGE_EXHAUSTED: the step index has reached the planned number of samples
OutcomeRangeExhausted == ~StoppedAtGate /\ Top.pt >= Len(Top.tdc_plot.heights)

\* C28: after every check_for_td call td_has_occurred is true if and only if
\* td_height is set, and both reflect that call only: they are true and set
\* exactly when this step detected a touchdown, whatever an earlier step had
\* left; the call returns True exactly when its outcome is ABORT_UNSAFE,
\* DETECTED or RANGE_EXHAUSTED, and False otherwise.
C28_VerdictOfThisCall ==
    StepOver =>
        /\ td.td_has_occurred <=> td.td_height # None
        /\ td.td_has_occurred <=> OutcomeDetected
        /\ td.td_has_occurred => HeightIsIntersection(td.td_height)
        /\ Top.returns <=> (OutcomeAbortUnsafe \/ OutcomeDetected \/ OutcomeRangeExhausted)

\* a step is about to return False with no detection, the plot still showing
\* the height an earlier step had detected
C28_Witness ==
    /\ StepOver
    /\ ~Top.returns
    /\ ~td.td_has_occurred
    /\ td.td_height = None
    /\ td.tdc_plot_td_height # None
====
